---- MODULE Spec2Model ----
(***************************************************************************)
(* A model of InstagramClient (src/src/instagram_client.py): the request   *)
(* dispatcher _make_request with its TTL cache and its Throttler, and the  *)
(* two-phase publish_media workflow.  Callers are asyncio tasks; an action *)
(* is the code one task runs between two suspension points (the throttler  *)
(* sleep, the HTTP call of the dispatcher, the image fetch).               *)
(***************************************************************************)
EXTENDS Integers, Sequences, FiniteSets, TLC

\* ---------------------------------------------------------------- bounds
Procs == {"a", "b"}

\* settings.rate_limit_requests_per_hour, scaled down
RateLimit == 2
\* the Throttler's period (3600 s in the code), in clock ticks
Period == 1
\* the configured value of settings.cache_ttl_seconds, in clock ticks
CacheTTL == 1
\* the clock stops here
MaxTime == 2
\* operations the tasks start, all together
MaxCalls == 2

\* ------------------------------------------------------------- settings
\* settings.instagram_access_token
access_token == "tok"
\* settings.instagram_api_url, and the host of the messaging calls
base_url == "resource-host"
facebook_url == "messaging-host"

\* --------------------------------------------------------------- values
\* Optional values are sets with at most one element.
None == {}
Some(x) == {x}
Get(o) == CHOOSE x \in o : TRUE

\* A parsed success payload: a JSON object that may or may not hold "id".
Payload(id, body) == [id |-> id, body |-> body]
NoPayload == Payload(None, "")

\* An exception: its class, str(e) as the pieces it was formatted from, and
\* the error_code / error_subcode attributes.
Exc(type, message, code, subcode) ==
    [type |-> type, message |-> message, code |-> code, subcode |-> subcode]
NoExc == Exc("", <<>>, None, None)

\* InstagramAPIError(message, error_code=None, error_subcode=None)
InstagramAPIError(message, code, subcode) ==
    Exc("InstagramAPIError", message, code, subcode)
\* RateLimitExceeded(message): a subclass of InstagramAPIError
RateLimitExceeded(message) == Exc("RateLimitExceeded", message, None, None)

IsInstagramAPIError(e) == e.type \in {"InstagramAPIError", "RateLimitExceeded"}

\* What a call hands back: nothing yet, a value, or a raised exception.
Pending == [kind |-> "pending", value |-> NoPayload, error |-> NoExc]
Returned(v) == [kind |-> "value", value |-> v, error |-> NoExc]
Raised(e) == [kind |-> "error", value |-> NoPayload, error |-> e]

\* ------------------------------------------------------ remote responses
\* The error envelope {"error": {"message", "code", "error_subcode"}}, each
\* member optional.  A message is a text: the pieces it is written from.
Envelope(message, code, subcode) ==
    [message |-> message, code |-> code, subcode |-> subcode]
NoEnvelope == Envelope(None, None, None)

\* What the HTTP call of the dispatcher ends with: a transport failure
\* (httpx.RequestError), or a response with a status and a body; the body is
\* unparseable, or a JSON object with or without an "error" member.
Response(transport_ok, status, json_ok, has_error, envelope, payload) ==
    [transport_ok |-> transport_ok, status |-> status, json_ok |-> json_ok,
     has_error |-> has_error, envelope |-> envelope, payload |-> payload]

Responses ==
    { Response(FALSE, 0, FALSE, FALSE, NoEnvelope, NoPayload),
      Response(TRUE, 200, TRUE, FALSE, NoEnvelope, Payload(Some("id1"), "v1")),
      Response(TRUE, 200, TRUE, FALSE, NoEnvelope, Payload(None, "v2")),
      Response(TRUE, 200, FALSE, FALSE, NoEnvelope, NoPayload),
      Response(TRUE, 200, TRUE, TRUE,
               Envelope(Some(<<"Invalid parameter">>), Some(100), Some(1234)),
               NoPayload),
      Response(TRUE, 200, TRUE, TRUE, NoEnvelope, NoPayload),
      Response(TRUE, 429, TRUE, FALSE, NoEnvelope, Payload(Some("id1"), "v1")),
      Response(TRUE, 429, TRUE, TRUE,
               Envelope(Some(<<"Rate limit exceeded">>), None, None), NoPayload) }

\* ------------------------------------------------------------ requests
\* str.upper() on the method names the callers use.
Upper(method) ==
    CASE method = "get" -> "GET"
      [] method = "post" -> "POST"
      [] method = "delete" -> "DELETE"
      [] OTHER -> method

\* A params dict: its items in insertion order, as <<name, value>> pairs.
Names(params) == {params[i][1] : i \in 1..Len(params)}

\* params[name] = value: replaces the value in place, or appends the item.
SetItem(params, name, value) ==
    IF name \in Names(params)
    THEN [i \in 1..Len(params) |->
            IF params[i][1] = name THEN <<name, value>> ELSE params[i]]
    ELSE Append(params, <<name, value>>)

\* The order sorted() puts the parameter names in.
NameOrder == <<"access_token", "after", "fields", "limit", "metric",
               "metric_type", "period", "platform">>
Rank(name) == CHOOSE i \in 1..Len(NameOrder) : NameOrder[i] = name

\* sorted(params.items()): insertion sort on the names (a dict's are distinct).
RECURSIVE Insert(_, _)
Insert(item, sorted) ==
    IF sorted = <<>> THEN <<item>>
    ELSE IF Rank(item[1]) <= Rank(Head(sorted)[1])
         THEN <<item>> \o sorted
         ELSE <<Head(sorted)>> \o Insert(item, Tail(sorted))

RECURSIVE Sorted(_)
Sorted(params) ==
    IF params = <<>> THEN <<>>
    ELSE Insert(Head(params), Sorted(Tail(params)))

\* A value of a params dict is a str, written as it is, or an object of
\* another type, written in angle brackets.  str(v) is the text urlencode
\* formats v to.
Str(v) ==
    CASE v = "<int 25>" -> "25"
      [] v = "<bool True>" -> "True"
      [] OTHER -> v

\* quote_plus(text): the text with its reserved characters escaped; no two
\* texts are escaped to the same one.
quote_plus(text) == <<"quoted", text>>

\* urlencode(query): "k=v" for each item, joined with "&", each k and v
\* being quote_plus(str(.)) of the item's.
urlencode(query) ==
    [i \in 1..Len(query) |->
        <<quote_plus(Str(query[i][1])), "=", quote_plus(Str(query[i][2]))>>]

\* _get_cache_key: f"{endpoint}?{urlencode(sorted(params.items()))}"
_get_cache_key(endpoint, params) == <<endpoint, "?", urlencode(Sorted(params))>>

\* f"{id}/{edge}" for the ids and edges the operations use.
Path(id, edge) ==
    CASE id = "acct" /\ edge = "media" -> "acct/media"
      [] id = "acct" /\ edge = "media_publish" -> "acct/media_publish"
      [] id = "acct" /\ edge = "insights" -> "acct/insights"
      [] id = "media1" /\ edge = "insights" -> "media1/insights"
      [] id = "page" /\ edge = "conversations" -> "page/conversations"
      [] id = "id1" /\ edge = "conversations" -> "id1/conversations"
      [] OTHER -> "other"

\* A call of _make_request as its caller wrote it.
Request(method, endpoint, params, data, use_cache, use_facebook_api) ==
    [method |-> method, endpoint |-> endpoint, params |-> params, data |-> data,
     use_cache |-> use_cache, use_facebook_api |-> use_facebook_api]
NoRequest == Request("", "", <<>>, <<>>, FALSE, FALSE)

\* The direct calls of _make_request the tasks make.
RequestInputs ==
    { Request("GET", "test_endpoint", <<<<"fields", "id">>>>, <<>>, TRUE, FALSE),
      Request("GET", "test_endpoint", <<<<"fields", "id">>>>, <<>>, FALSE, FALSE),
      Request("post", "test_endpoint", <<<<"fields", "id">>>>, <<>>, TRUE, FALSE),
      Request("DELETE", "test_endpoint", <<<<"fields", "id">>>>, <<>>, TRUE, FALSE) }

\* A PublishMediaRequest: image_url and video_url, each optional.
Media(image_url, video_url) == [image_url |-> image_url, video_url |-> video_url]
NoMedia == Media(None, None)

PublishInputs ==
    { Media(Some("img"), None), Media(None, Some("vid")), Media(None, None) }

\* What the image fetch of the validator ends with: a failed download
\* (httpx.HTTPError), bytes PIL cannot open, or an image of some size.
Image(fetched, decoded, width, height) ==
    [fetched |-> fetched, decoded |-> decoded, width |-> width, height |-> height]

Images ==
    { Image(FALSE, FALSE, 0, 1), Image(TRUE, FALSE, 0, 1),
      Image(TRUE, TRUE, 1000, 1000), Image(TRUE, TRUE, 1000, 800) }

\* ---------------------------------------------------------------- state
VARIABLES
    now,            \* the clock: datetime.utcnow() and time.monotonic()
    cache_enabled,  \* settings.cache_enabled
    cache,          \* InstagramClient._cache: key -> entry
    task_logs,      \* Throttler._task_logs: the admission times still kept
    tasks,          \* the callers: each task's position and locals
    calls,          \* operations started so far
    window,         \* history: the times of the dispatcher's HTTP calls that
                    \* lie in the trailing window (now - Period, now]
    stored,         \* history: key -> what the call that stored the entry
                    \* returned, the HTTP calls it issued, the host it
                    \* was addressed to
    create_failure, \* history: the error of the last publish_media that
                    \* failed in its create phase
    instagram_business_account_id,
                    \* settings.instagram_business_account_id
    waiting,        \* history: the tasks asleep in Throttler.acquire(), in
                    \* the order in which they fell asleep
    cache_ttl_seconds
                    \* settings.cache_ttl_seconds

vars == <<now, cache_enabled, cache, task_logs, tasks, calls, window, stored,
          create_failure, instagram_business_account_id, waiting,
          cache_ttl_seconds>>

\* One caller.  op: the operation it runs; pc: where it is suspended; phase:
\* which dispatcher call of the operation is current; req, key: the locals of
\* _make_request; out: what the operation handed back.  History of the
\* operation: issued (the HTTP calls its dispatcher calls issued), slots (the
\* limiter slots it reserved), valid (what _is_cache_valid answered), hit
\* (answered from the cache), wrote (stored in the cache), replaced (its store
\* replaced an entry that was still valid), lookup (the entry its cache check
\* found), response (what its HTTP call ended with), failed_at (the phase of
\* publish_media in which its failure arose), supplied (the account id the
\* operation was called with), image (what the image fetch ended with),
\* answers (what each HTTP call of the operation ended with, by phase),
\* passed (the params dict as its caller built it, before _make_request ran).
\* account_id, page_id: the locals of the gateway operations.
IdleTask ==
    [op |-> "none", pc |-> "idle", phase |-> "", req |-> NoRequest,
     key |-> _get_cache_key("", <<>>), media |-> NoMedia, container_id |-> None,
     out |-> Pending, valid |-> None, issued |-> <<>>, slots |-> 0,
     hit |-> FALSE, wrote |-> FALSE, replaced |-> FALSE, lookup |-> None,
     response |-> None, failed_at |-> "", account_id |-> "", page_id |-> None,
     supplied |-> None, image |-> None, answers |-> <<>>, passed |-> <<>>]

\* The shared state one step reads and writes.
World ==
    [cache |-> cache, logs |-> task_logs, window |-> window, stored |-> stored]

Step(t, w) == [t |-> t, w |-> w]

\* The dispatcher call of task t ended: it returns v / raises e to its caller.
Return(t, v) == [t EXCEPT !.pc = "ret", !.out = Returned(v)]
Raise(t, e) == [t EXCEPT !.pc = "ret", !.out = Raised(e)]

\* ------------------------------------------------------------ the cache
\* datetime.isoformat() and datetime.fromisoformat()
isoformat(t) == <<"iso", t>>
fromisoformat(s) == s[2]

Entry(data, expires_at, cached_at) ==
    [data |-> data, expires_at |-> expires_at, cached_at |-> cached_at]

\* A slip in _is_cache_valid: the comparison with the clock is reversed.
IsCacheValidReversed(cache_entry) ==
    IF ~cache_enabled THEN FALSE
    ELSE IF "expires_at" \notin DOMAIN cache_entry THEN FALSE
    ELSE fromisoformat(cache_entry.expires_at) < now

\* _is_cache_valid(cache_entry)
_is_cache_valid(cache_entry) ==
    IF ~cache_enabled THEN FALSE
    ELSE IF "expires_at" \notin DOMAIN cache_entry THEN FALSE
    ELSE fromisoformat(cache_entry.expires_at) > now

\* A slip in _cache_response: an entry already under the key is kept, the
\* first writer wins.
CacheResponseKeepFirst(c, key, data) ==
    IF ~cache_enabled \/ key \in DOMAIN c THEN c
    ELSE (key :> Entry(data, isoformat(now + cache_ttl_seconds), isoformat(now)))
         @@ c

\* A slip in _cache_response: the check of settings.cache_enabled is missing.
CacheResponseAlways(c, key, data) ==
    (key :> Entry(data, isoformat(now + cache_ttl_seconds), isoformat(now))) @@ c

\* A slip in _cache_response: the entry expires one tick late.
CacheResponseLate(c, key, data) ==
    IF ~cache_enabled THEN c
    ELSE (key :> Entry(data, isoformat(now + cache_ttl_seconds + 1),
                       isoformat(now))) @@ c

\* _cache_response(key, data): the cache afterwards
_cache_response(c, key, data) ==
    IF ~cache_enabled THEN c
    ELSE (key :> Entry(data, isoformat(now + cache_ttl_seconds), isoformat(now)))
         @@ c

\* --------------------------------------------------------- the limiter
\* Throttler.flush(): drops the admissions older than the period, oldest first.
RECURSIVE flush(_)
flush(logs) ==
    IF logs # <<>> /\ now - Head(logs) > Period THEN flush(Tail(logs)) ELSE logs

\* _make_request, the choice of the host: graph.facebook.com for a request
\* with use_facebook_api, the configured base URL otherwise.
Host(r) == IF r.use_facebook_api THEN facebook_url ELSE base_url

\* _make_request, inside `async with self.throttler`, up to the HTTP call: the
\* host is chosen and the call issued; any method but GET and POST raises.
IssueCall(t, w) ==
    IF Upper(t.req.method) \in {"GET", "POST"}
    THEN Step([t EXCEPT !.pc = "http",
                        !.issued = Append(@,
                            [phase |-> t.phase,
                             endpoint |-> t.req.endpoint, data |-> t.req.data,
                             params |-> t.req.params,
                             host |-> IF t.req.use_facebook_api
                                      THEN facebook_url ELSE base_url])],
              [w EXCEPT !.window = Append(@, now)])
    ELSE Step(Raise(t, Exc("ValueError",
                           <<"Unsupported HTTP method: ", t.req.method>>,
                           None, None)), w)

\* One pass of the loop of Throttler.acquire(): with a free slot in the
\* window the task is admitted and runs on; otherwise it sleeps and retries.
Acquire(t, w) ==
    LET logs == flush(w.logs) IN
    IF Len(logs) < RateLimit
    THEN IssueCall([t EXCEPT !.slots = @ + 1],
                   [w EXCEPT !.logs = Append(logs, now)])
    ELSE Step([t EXCEPT !.pc = "sleep"], [w EXCEPT !.logs = logs])

\* ------------------------------------------------------ the dispatcher
\* A slip in _make_request: the HTTP call is issued outside the throttler.
MakeRequestUnthrottled(t, w, r, phase) ==
    LET params == SetItem(r.params, "access_token", access_token)
        cache_key == _get_cache_key(r.endpoint, params)
        found == /\ Upper(r.method) = "GET"
                 /\ r.use_cache
                 /\ cache_key \in DOMAIN w.cache
        t1 == [t EXCEPT !.req = [r EXCEPT !.params = params],
                        !.out = Pending,
                        !.response = None,
                        !.key = cache_key,
                        !.phase = phase,
                        !.lookup = IF found
                                   THEN Some([at |-> now,
                                              enabled |-> cache_enabled,
                                              entry |-> w.cache[cache_key]])
                                   ELSE None]
    IN  IF found /\ _is_cache_valid(w.cache[cache_key])
        THEN Step(Return([t1 EXCEPT !.hit = TRUE], w.cache[cache_key].data), w)
        ELSE IssueCall(t1, w)

\* A slip in _make_request: the limiter is entered before the cache check.
MakeRequestSlotFirst(t, w, r, phase) ==
    LET params == SetItem(r.params, "access_token", access_token)
        cache_key == _get_cache_key(r.endpoint, params)
        found == /\ Upper(r.method) = "GET"
                 /\ r.use_cache
                 /\ cache_key \in DOMAIN w.cache
        t1 == [t EXCEPT !.req = [r EXCEPT !.params = params],
                        !.out = Pending,
                        !.response = None,
                        !.key = cache_key,
                        !.phase = phase,
                        !.lookup = IF found
                                   THEN Some([at |-> now,
                                              enabled |-> cache_enabled,
                                              entry |-> w.cache[cache_key]])
                                   ELSE None]
    IN  IF found /\ _is_cache_valid(w.cache[cache_key])
        THEN Step(Return([t1 EXCEPT !.hit = TRUE, !.slots = @ + 1],
                         w.cache[cache_key].data),
                  [w EXCEPT !.logs = Append(flush(@), now)])
        ELSE Acquire(t1, w)

\* A slip in _make_request: an entry found expired is deleted from the cache.
MakeRequestEvict(t, w, r, phase) ==
    LET params == SetItem(r.params, "access_token", access_token)
        cache_key == _get_cache_key(r.endpoint, params)
        found == /\ Upper(r.method) = "GET"
                 /\ r.use_cache
                 /\ cache_key \in DOMAIN w.cache
        t1 == [t EXCEPT !.req = [r EXCEPT !.params = params],
                        !.out = Pending,
                        !.response = None,
                        !.key = cache_key,
                        !.phase = phase,
                        !.lookup = IF found
                                   THEN Some([at |-> now,
                                              enabled |-> cache_enabled,
                                              entry |-> w.cache[cache_key]])
                                   ELSE None]
    IN  IF found /\ _is_cache_valid(w.cache[cache_key])
        THEN Step(Return([t1 EXCEPT !.hit = TRUE], w.cache[cache_key].data), w)
        ELSE IF found
        THEN Acquire(t1, [w EXCEPT !.cache = [k \in DOMAIN @ \ {cache_key}
                                                |-> @[k]]])
        ELSE Acquire(t1, w)

\* _make_request from its first line to its first suspension: the token is
\* added to the params, the cache is checked, the limiter is entered.
MakeRequest(t, w, r, phase) ==
    LET params == SetItem(r.params, "access_token", access_token)
        cache_key == _get_cache_key(r.endpoint, params)
        found == /\ Upper(r.method) = "GET"
                 /\ r.use_cache
                 /\ cache_key \in DOMAIN w.cache
        t1 == [t EXCEPT !.req = [r EXCEPT !.params = params],
                        !.out = Pending,
                        !.response = None,
                        !.key = cache_key,
                        !.phase = phase,
                        !.lookup = IF found
                                   THEN Some([at |-> now,
                                              enabled |-> cache_enabled,
                                              entry |-> w.cache[cache_key]])
                                   ELSE None]
    IN  IF found /\ _is_cache_valid(w.cache[cache_key])
        THEN Step(Return([t1 EXCEPT !.hit = TRUE], w.cache[cache_key].data), w)
        ELSE Acquire(t1, w)

\* A slip in _make_request: a failed HTTP call is issued again.
TransportFailedRetry(t, w) == IssueCall(t, w)

\* A slip in _make_request: a call that fails in transport gives its slot
\* back to the limiter.
TransportFailedRelease(t, w) ==
    Step(Raise(t, InstagramAPIError(<<"HTTP request failed: ", "transport">>,
                                    None, None)),
         IF w.logs # <<>> THEN [w EXCEPT !.logs = SubSeq(@, 1, Len(@) - 1)] ELSE w)

\* _make_request, `except httpx.RequestError`: a connection failure or a
\* timeout leaves as InstagramAPIError.
TransportFailed(t, w) ==
    Step(Raise(t, InstagramAPIError(<<"HTTP request failed: ", "transport">>,
                                    None, None)), w)

\* A slip in _make_request: the response is stored whatever the method.
StoreAndReturnAnyMethod(t, w, payload) ==
    IF t.req.use_cache
    THEN Step(Return([t EXCEPT !.wrote = cache_enabled], payload),
              [w EXCEPT !.cache = _cache_response(@, t.key, payload)])
    ELSE Step(Return(t, payload), w)

\* _make_request, the end of a successful call: a GET with caching allowed
\* stores the parsed body, then the body is returned.
StoreAndReturn(t, w, payload) ==
    IF Upper(t.req.method) = "GET" /\ t.req.use_cache
    THEN Step(Return([t EXCEPT !.wrote = cache_enabled,
                               !.replaced = /\ cache_enabled
                                            /\ t.key \in DOMAIN w.cache
                                            /\ _is_cache_valid(w.cache[t.key])],
                     payload),
              [w EXCEPT !.cache = _cache_response(@, t.key, payload),
                        !.stored = IF cache_enabled
                                   THEN (t.key :> [value |-> payload,
                                                   calls |-> Len(t.issued),
                                                   host |-> Host(t.req)]) @@ @
                                   ELSE @])
    ELSE Step(Return(t, payload), w)

\* A slip in _make_request: the subcode is read from the wrong member.
EnvelopeErrorNoSubcode(envelope) ==
    InstagramAPIError(IF envelope.message = None
                      THEN <<"Unknown error">>
                      ELSE Get(envelope.message),
                      envelope.code, None)

\* The exception _make_request raises for an error envelope.
EnvelopeError(envelope) ==
    InstagramAPIError(IF envelope.message = None
                      THEN <<"Unknown error">>
                      ELSE Get(envelope.message),
                      envelope.code, envelope.subcode)

\* A slip in _make_request: the body is cached before it is searched for an
\* error envelope.
ParseBodyCacheFirst(t, w, resp) ==
    IF ~resp.json_ok
    THEN Step(Raise(t, InstagramAPIError(<<"Invalid JSON response: ", "decode">>,
                                         None, None)), w)
    ELSE IF resp.has_error
    THEN Step(Raise(StoreAndReturn(t, w, resp.payload).t,
                    EnvelopeError(resp.envelope)),
              StoreAndReturn(t, w, resp.payload).w)
    ELSE StoreAndReturn(t, w, resp.payload)

\* _make_request from response.json() on: a body that does not parse and a
\* body with an error envelope raise InstagramAPIError.
ParseBody(t, w, resp) ==
    IF ~resp.json_ok
    THEN Step(Raise(t, InstagramAPIError(<<"Invalid JSON response: ", "decode">>,
                                         None, None)), w)
    ELSE IF resp.has_error
    THEN Step(Raise(t, EnvelopeError(resp.envelope)), w)
    ELSE StoreAndReturn(t, w, resp.payload)

\* A slip in _make_request: the body is parsed before the status is checked.
HandleResponseBodyFirst(t, w, resp) ==
    IF ~resp.transport_ok THEN TransportFailed(t, w)
    ELSE IF resp.json_ok /\ resp.has_error THEN ParseBody(t, w, resp)
    ELSE IF resp.status = 429
    THEN Step(Raise(t, RateLimitExceeded(<<"Instagram API rate limit exceeded">>)),
              w)
    ELSE ParseBody(t, w, resp)

\* _make_request from the end of its HTTP call to its end.
HandleResponse(t, w, resp) ==
    IF ~resp.transport_ok THEN TransportFailed(t, w)
    ELSE IF resp.status = 429
    THEN Step(Raise(t, RateLimitExceeded(<<"Instagram API rate limit exceeded">>)),
              w)
    ELSE ParseBody(t, w, resp)

\* ------------------------------------------------- the image validator
\* The accepted bands (min_ratio, max_ratio), in hundredths.
ACCEPTED_RATIOS == {<<78, 82>>, <<98, 102>>, <<189, 193>>}

\* A slip in the ratio check: the lower bound of a band is excluded.
RatioAcceptedStrict(width, height) ==
    \E band \in ACCEPTED_RATIOS :
        band[1] * height < 100 * width /\ 100 * width <= band[2] * height

\* `min_ratio <= width / height <= max_ratio` for one of the bands.  The
\* quotient and the bounds are doubles; a quotient of two image dimensions
\* that differs from a bound of two decimals differs from it by at least
\* 1 / (100 * height), far more than the rounding of a double, so the
\* comparison of the doubles is that of the exact quotient with the bound.
RatioAccepted(width, height) ==
    \E band \in ACCEPTED_RATIOS :
        band[1] * height <= 100 * width /\ 100 * width <= band[2] * height

\* A slip in _validate_image_aspect_ratio: bytes that are no image pass.
ValidateImageLenient(img) ==
    IF ~img.fetched
    THEN Some(InstagramAPIError(
                  <<"Failed to download image for validation: ", "http">>,
                  None, None))
    ELSE IF ~img.decoded THEN None
    ELSE IF RatioAccepted(img.width, img.height) THEN None
    ELSE Some(InstagramAPIError(<<"Image aspect ratio is not supported">>,
                                None, None))

\* _validate_image_aspect_ratio from the end of its fetch: the exception it
\* raises, or None when the image passes.
_validate_image_aspect_ratio(img) ==
    IF ~img.fetched
    THEN Some(InstagramAPIError(
                  <<"Failed to download image for validation: ", "http">>,
                  None, None))
    ELSE IF ~img.decoded
    THEN Some(InstagramAPIError(<<"Failed to validate image: ", "decode">>,
                                None, None))
    ELSE IF img.height = 0
    THEN Some(InstagramAPIError(
                  <<"Failed to validate image: ", "division by zero">>,
                  None, None))
    ELSE IF RatioAccepted(img.width, img.height) THEN None
    ELSE Some(InstagramAPIError(<<"Image aspect ratio is not supported">>,
                                None, None))

\* ------------------------------------------------------- publish_media
\* The operation of task t is over.
Done(t, out) == [t EXCEPT !.pc = "done", !.out = out]

\* `except Exception as e` of publish_media: whatever was raised inside the
\* try block leaves as InstagramAPIError("Failed to publish media: " + str(e)).
PublishFailed(t, phase, e) ==
    [Done(t, Raised(InstagramAPIError(<<"Failed to publish media: ">> \o e.message,
                                      None, None)))
        EXCEPT !.failed_at = phase]

KeyError(key) == Exc("KeyError", <<"'", key, "'">>, None, None)

\* A slip in publish_media: the check for a media url is missing.
CreateContainerUnchecked(t, w) ==
    MakeRequest(t, w,
        Request("POST", Path(t.account_id, "media"), <<>>, <<<<"caption", "">>>>,
                TRUE, FALSE),
        "create")

\* publish_media, step 1: the container data is built and the create request
\* handed to the dispatcher.
CreateContainer(t, w) ==
    IF t.media.image_url = None /\ t.media.video_url = None
    THEN Step(PublishFailed(t, "precondition",
                  InstagramAPIError(<<"Either image_url or video_url is required">>,
                                    None, None)), w)
    ELSE MakeRequest(t, w,
             Request("POST", Path(t.account_id, "media"), <<>>,
                     <<<<"caption", "">>,
                       IF t.media.image_url # None
                       THEN <<"image_url", Get(t.media.image_url)>>
                       ELSE <<"video_url", Get(t.media.video_url)>>>>,
                     TRUE, FALSE),
             "create")

\* A slip in publish_media: the commit request names a container id that is
\* not taken from the response of the create request.
PublishContainerFixed(t, w) ==
    MakeRequest([t EXCEPT !.container_id = t.out.value.id], w,
        Request("POST", Path(t.account_id, "media_publish"), <<>>,
                <<<<"creation_id", "id1">>>>, TRUE, FALSE),
        "commit")

\* publish_media, step 2: the commit request for the container just created.
PublishContainer(t, w) ==
    MakeRequest([t EXCEPT !.container_id = t.out.value.id], w,
        Request("POST", Path(t.account_id, "media_publish"), <<>>,
                <<<<"creation_id", Get(t.out.value.id)>>>>, TRUE, FALSE),
        "commit")

\* ------------------------------------------------ gateway operations
\* str.lower() on a piece of a text, and on a text.
Lower(piece) ==
    CASE piece = "Permissions" -> "permissions"
      [] piece = "Temporarily" -> "temporarily"
      [] OTHER -> piece
LowerText(text) == [i \in 1..Len(text) |-> Lower(text[i])]

\* `needle in text`: the texts are cut so that each needle the code looks for
\* is a piece of the text or does not occur in it.
Contains(text, needle) == \E i \in 1..Len(text) : text[i] = needle

\* The text the messaging operations append to a permission error.
REMEDIATION ==
    <<"\n\nThis error indicates that instagram_manage_messages permission requires Advanced Access from Meta via App Review. \nSee INSTAGRAM_DM_SETUP.md for the complete approval process.">>

\* The test of get_conversations on str(e).
ConversationsNeedsAccess(error_msg) ==
    \/ Contains(error_msg, "#2")
    \/ Contains(LowerText(error_msg), "unavailable")
    \/ Contains(LowerText(error_msg), "temporarily")

\* The test of get_conversation_messages on str(e).
MessagesNeedsAccess(error_msg) ==
    \/ Contains(error_msg, "#2")
    \/ Contains(LowerText(error_msg), "unavailable")
    \/ Contains(LowerText(error_msg), "temporarily")

\* The test of send_dm on str(e).
SendDMNeedsAccess(error_msg) ==
    \/ Contains(error_msg, "#2")
    \/ Contains(LowerText(error_msg), "unavailable")
    \/ Contains(LowerText(error_msg), "temporarily")
    \/ Contains(LowerText(error_msg), "permissions")
    \/ Contains(LowerText(error_msg), "access")

\* `except InstagramAPIError as e` of a messaging operation: the message of
\* e, with the remediation text when the test matches, leaves as a new
\* InstagramAPIError.
Reclassified(e, matches) ==
    InstagramAPIError(IF matches THEN e.message \o REMEDIATION ELSE e.message,
                      None, None)

\* `except Exception as e` of an operation:
\* InstagramAPIError(f"Failed to ...: {str(e)}")
Wrapped(prefix, e) == InstagramAPIError(<<prefix>> \o e.message, None, None)

\* pydantic's error for a model built from a body without a required field.
ValidationError(model) ==
    Exc("ValidationError", <<"validation error for ", model>>, None, None)

\* [Model(**item) for item in data.get("data", [])]: the objects built from
\* the items of a body; Payload.id stands for the id of the first item, None
\* for a body without items.
Models(model, payload) == Payload(payload.id, model)

NotConfigured ==
    InstagramAPIError(<<"Instagram business account ID not configured">>,
                      None, None)

\* `if not account_id: account_id = settings.instagram_business_account_id`
AccountId(account_id) ==
    IF account_id # None THEN account_id ELSE instagram_business_account_id

\* An operation that starts with the account id check: it raises when none is
\* supplied and none configured, and otherwise makes its dispatcher call.
\* A slip in the account id check: the request is made without an id.
WithAccountUnchecked(t, w, account_id, r) ==
    MakeRequest([t EXCEPT !.supplied = account_id], w, r, "single")

WithAccount(t, w, account_id, r) ==
    IF AccountId(account_id) = None
    THEN Step(Done([t EXCEPT !.supplied = account_id], Raised(NotConfigured)), w)
    ELSE MakeRequest([t EXCEPT !.supplied = account_id,
                               !.account_id = Get(AccountId(account_id))], w,
                     r, "single")

\* get_profile_info up to its dispatcher call
get_profile_info(t, w, account_id) ==
    WithAccount([t EXCEPT !.op = "get_profile_info"], w, account_id,
        Request("GET", IF AccountId(account_id) = None THEN ""
                       ELSE Get(AccountId(account_id)),
                <<<<"fields", "id,username,name,biography,website,profile_picture_url,followers_count,follows_count,media_count">>>>,
                <<>>, TRUE, FALSE))

\* get_media_posts(account_id, limit=25, after=None) up to its dispatcher call
get_media_posts(t, w, account_id) ==
    WithAccount([t EXCEPT !.op = "get_media_posts"], w, account_id,
        Request("GET", IF AccountId(account_id) = None THEN ""
                       ELSE Path(Get(AccountId(account_id)), "media"),
                <<<<"fields", "id,media_type,media_url,permalink,thumbnail_url,caption,timestamp,like_count,comments_count">>,
                  <<"limit", "<int 25>">>>>,
                <<>>, TRUE, FALSE))

\* get_account_insights(account_id, metrics=None, period=DAY) up to its
\* dispatcher call
get_account_insights(t, w, account_id) ==
    WithAccount([t EXCEPT !.op = "get_account_insights"], w, account_id,
        Request("GET", IF AccountId(account_id) = None THEN ""
                       ELSE Path(Get(AccountId(account_id)), "insights"),
                <<<<"metric", "reach,profile_views,website_clicks">>,
                  <<"period", "day">>,
                  <<"metric_type", "total_value">>>>,
                <<>>, TRUE, FALSE))

\* get_media_insights(media_id, metrics=None) up to its dispatcher call
get_media_insights(t, w, media_id) ==
    MakeRequest([t EXCEPT !.op = "get_media_insights"], w,
        Request("GET", Path(media_id, "insights"),
                <<<<"metric", "reach,likes,comments,shares,saved">>>>,
                <<>>, TRUE, FALSE),
        "single")

\* get_account_pages up to its dispatcher call
get_account_pages(t, w, phase) ==
    MakeRequest(t, w,
        Request("GET", "me/accounts",
                <<<<"fields", "id,name,instagram_business_account">>>>,
                <<>>, TRUE, FALSE),
        phase)

\* get_conversations(page_id, limit=25), the dispatcher call for the
\* conversations of the page
ConversationsRequest(t, w, page_id) ==
    MakeRequest([t EXCEPT !.page_id = Some(page_id)], w,
        Request("GET", Path(page_id, "conversations"),
                <<<<"platform", "instagram">>,
                  <<"fields", "id,updated_time,message_count">>,
                  <<"limit", "<int 25>">>>>,
                <<>>, TRUE, TRUE),
        "conversations")

\* get_conversations up to its first dispatcher call: without a page id the
\* connected pages are fetched first.
get_conversations(t, w, page_id) ==
    IF page_id = None
    THEN get_account_pages([t EXCEPT !.op = "get_conversations"], w, "pages")
    ELSE ConversationsRequest([t EXCEPT !.op = "get_conversations"], w,
                              Get(page_id))

\* get_conversation_messages(conversation_id, limit=25) up to its dispatcher
\* call
get_conversation_messages(t, w, conversation_id) ==
    MakeRequest([t EXCEPT !.op = "get_conversation_messages"], w,
        Request("GET", conversation_id,
                <<<<"fields", "messages{id,from,to,message,created_time,attachments}">>,
                  <<"limit", "<int 25>">>>>,
                <<>>, TRUE, TRUE),
        "single")

\* A slip in send_dm: use_facebook_api is left at its default.
SendDMResourceHost(t, w, recipient_id) ==
    MakeRequest([t EXCEPT !.op = "send_dm"], w,
        Request("POST", "me/messages", <<>>,
                <<<<"recipient", recipient_id>>, <<"message", "text">>>>,
                TRUE, FALSE),
        "single")

\* send_dm(request) up to its dispatcher call
send_dm(t, w, recipient_id) ==
    MakeRequest([t EXCEPT !.op = "send_dm"], w,
        Request("POST", "me/messages", <<>>,
                <<<<"recipient", recipient_id>>, <<"message", "text">>>>,
                TRUE, TRUE),
        "single")

\* A slip in validate_access_token: the request may be answered from the
\* cache.
ValidateAccessTokenCached(t, w) ==
    MakeRequest([t EXCEPT !.op = "validate_access_token"], w,
        Request("GET", "me", <<<<"fields", "id">>>>, <<>>, TRUE, FALSE),
        "single")

\* validate_access_token up to its dispatcher call
validate_access_token(t, w) ==
    MakeRequest([t EXCEPT !.op = "validate_access_token"], w,
        Request("GET", "me", <<<<"fields", "id">>>>, <<>>, FALSE, FALSE),
        "single")

\* A bool handed back by an operation.
Bool(b) == Payload(None, IF b THEN "True" ELSE "False")

\* ------------------------------------------------- after a dispatcher call
\* The code of the operation that runs when its dispatcher call has ended
\* (pc = "ret"), up to the next suspension or the end of the operation.
\* A slip in publish_media: the id of the container is returned as the
\* published id, the commit request left out.
AfterCreateNoCommit(t, w) ==
    IF t.out.kind = "error"
    THEN Step(PublishFailed(t, "create", t.out.error), w)
    ELSE IF t.out.value.id = None
    THEN Step(PublishFailed(t, "create", KeyError("id")), w)
    ELSE Step(Done(t, Returned(Payload(t.out.value.id, "published"))), w)

\* publish_media after its create request: a failure ends the operation, a
\* response without "id" too; otherwise step 2 follows.
AfterCreate(t, w) ==
    IF t.out.kind = "error"
    THEN Step(PublishFailed(t, "create", t.out.error), w)
    ELSE IF t.out.value.id = None
    THEN Step(PublishFailed(t, "create", KeyError("id")), w)
    ELSE PublishContainer(t, w)

\* A slip in publish_media: a failed commit request is made once more.
AfterCommitRetry(t, w) ==
    IF t.out.kind = "error" /\ Len(t.issued) < 3
    THEN MakeRequest(t, w,
             Request("POST", Path(t.account_id, "media_publish"), <<>>,
                     <<<<"creation_id", Get(t.container_id)>>>>, TRUE, FALSE),
             "commit")
    ELSE IF t.out.kind = "error"
    THEN Step(PublishFailed(t, "commit", t.out.error), w)
    ELSE IF t.out.value.id = None
    THEN Step(PublishFailed(t, "commit", KeyError("id")), w)
    ELSE Step(Done(t, Returned(Payload(t.out.value.id, "published"))), w)

\* publish_media after its commit request: PublishMediaResponse(id=...) is
\* returned, its status "published".
AfterCommit(t, w) ==
    IF t.out.kind = "error"
    THEN Step(PublishFailed(t, "commit", t.out.error), w)
    ELSE IF t.out.value.id = None
    THEN Step(PublishFailed(t, "commit", KeyError("id")), w)
    ELSE Step(Done(t, Returned(Payload(t.out.value.id, "published"))), w)

\* get_profile_info after its dispatcher call: InstagramProfile(**data), which
\* needs the id; whatever is raised leaves wrapped.
AfterProfileInfo(t, w) ==
    IF t.out.kind = "error"
    THEN Step(Done(t, Raised(Wrapped("Failed to get profile info: ",
                                     t.out.error))), w)
    ELSE IF t.out.value.id = None
    THEN Step(Done(t, Raised(Wrapped("Failed to get profile info: ",
                                     ValidationError("InstagramProfile")))), w)
    ELSE Step(Done(t, Returned(Payload(t.out.value.id, "InstagramProfile"))), w)

\* A list operation after its dispatcher call: the objects built from the
\* items are returned; whatever is raised leaves wrapped.
AfterList(t, w, prefix, model) ==
    IF t.out.kind = "error"
    THEN Step(Done(t, Raised(Wrapped(prefix, t.out.error))), w)
    ELSE Step(Done(t, Returned(Models(model, t.out.value))), w)

\* get_conversations after get_account_pages: its error leaves as it is (the
\* call stands outside the try block); without a page the operation raises;
\* otherwise the conversations of the first page are asked for.
AfterPages(t, w) ==
    IF t.out.kind = "error"
    THEN Step(Done(t, Raised(Wrapped("Failed to get account pages: ",
                                     t.out.error))), w)
    ELSE IF Models("FacebookPage", t.out.value).id = None
    THEN Step(Done(t, Raised(InstagramAPIError(
                  <<"No Facebook pages found. Please connect a Facebook page to your Instagram account.">>,
                  None, None))), w)
    ELSE ConversationsRequest(t, w, Get(Models("FacebookPage", t.out.value).id))

\* A messaging operation after its dispatcher call: an InstagramAPIError
\* leaves reclassified, any other exception wrapped.
AfterMessaging(t, w, matches, prefix, result) ==
    IF t.out.kind = "error"
    THEN Step(Done(t, Raised(IF IsInstagramAPIError(t.out.error)
                             THEN Reclassified(t.out.error, matches)
                             ELSE Wrapped(prefix, t.out.error))), w)
    ELSE Step(Done(t, Returned(result)), w)

\* get_conversations after its conversations request
AfterConversations(t, w) ==
    AfterMessaging(t, w,
        t.out.kind = "error" /\ ConversationsNeedsAccess(t.out.error.message),
        "Failed to get conversations: ",
        Models("InstagramConversation", t.out.value))

\* get_conversation_messages after its dispatcher call
AfterMessages(t, w) ==
    AfterMessaging(t, w,
        t.out.kind = "error" /\ MessagesNeedsAccess(t.out.error.message),
        "Failed to get conversation messages: ",
        Models("InstagramMessage", t.out.value))

\* send_dm after its dispatcher call:
\* SendDMResponse(message_id=data.get("message_id", ""), ...)
AfterSendDM(t, w) ==
    AfterMessaging(t, w,
        t.out.kind = "error" /\ SendDMNeedsAccess(t.out.error.message),
        "Failed to send DM: ",
        Payload(IF t.out.value.id = None THEN Some("") ELSE t.out.value.id,
                "SendDMResponse"))

\* validate_access_token after its dispatcher call: True; False for an
\* InstagramAPIError; any other exception is not caught.
AfterValidate(t, w) ==
    IF t.out.kind = "value" THEN Step(Done(t, Returned(Bool(TRUE))), w)
    ELSE IF IsInstagramAPIError(t.out.error)
    THEN Step(Done(t, Returned(Bool(FALSE))), w)
    ELSE Step(Done(t, t.out), w)

\* The code that follows the dispatcher call of task t in its operation.
After(t, w) ==
    CASE t.op = "publish_media" /\ t.phase = "create" -> AfterCreate(t, w)
      [] t.op = "publish_media" /\ t.phase = "commit" -> AfterCommit(t, w)
      [] t.op = "get_profile_info" -> AfterProfileInfo(t, w)
      [] t.op = "get_media_posts" ->
            AfterList(t, w, "Failed to get media posts: ", "InstagramMedia")
      [] t.op = "get_media_insights" ->
            AfterList(t, w, "Failed to get media insights: ", "MediaInsight")
      [] t.op = "get_account_insights" ->
            AfterList(t, w, "Failed to get account insights: ", "AccountInsight")
      [] t.op = "get_account_pages" ->
            AfterList(t, w, "Failed to get account pages: ", "FacebookPage")
      [] t.op = "get_conversations" /\ t.phase = "pages" -> AfterPages(t, w)
      [] t.op = "get_conversations" /\ t.phase = "conversations" ->
            AfterConversations(t, w)
      [] t.op = "get_conversation_messages" -> AfterMessages(t, w)
      [] t.op = "send_dm" -> AfterSendDM(t, w)
      [] t.op = "validate_access_token" -> AfterValidate(t, w)
      [] OTHER -> Step(Done(t, t.out), w)

RECURSIVE Continue(_)
Continue(s) == IF s.t.pc # "ret" THEN s ELSE Continue(After(s.t, s.w))

\* -------------------------------------------------------------- actions
Init ==
    /\ now = 0
    /\ cache_enabled = TRUE
    /\ cache = <<>>
    /\ task_logs = <<>>
    /\ tasks = [p \in Procs |-> IdleTask]
    /\ calls = 0
    /\ window = <<>>
    /\ stored = <<>>
    /\ create_failure = None
    /\ instagram_business_account_id = Some("acct")
    /\ waiting = <<>>
    /\ cache_ttl_seconds = CacheTTL

\* A finished operation hands back at once: nothing else runs between its end
\* and its caller taking the result.
Quiet == \A q \in Procs : tasks[q].pc # "done"

CanStart(p) == Quiet /\ tasks[p].pc = "idle" /\ calls < MaxCalls

\* Task p's step ends in s: its locals and the shared state are written back.
Apply(p, s) ==
    /\ tasks' = [tasks EXCEPT ![p] = s.t]
    /\ cache' = s.w.cache
    /\ task_logs' = s.w.logs
    /\ window' = s.w.window
    /\ stored' = s.w.stored
    /\ create_failure' = IF s.t.pc = "done" /\ s.t.failed_at = "create"
                         THEN Some(s.t.out.error)
                         ELSE create_failure
    /\ waiting' = IF s.t.pc # "sleep" THEN SelectSeq(waiting, LAMBDA q : q # p)
                  ELSE IF \E i \in 1..Len(waiting) : waiting[i] = p THEN waiting
                  ELSE Append(waiting, p)

\* Task p calls _make_request(r) and runs to its first suspension.  The
\* params of r are the caller's dict: _make_request works on that very object
\* (`params` is rebound only when it is None), so req.params is what the
\* caller's dict holds from then on.
CallMakeRequest(p, r) ==
    /\ CanStart(p)
    /\ Apply(p, Continue(MakeRequest([IdleTask EXCEPT !.op = "_make_request",
                                                      !.passed = r.params],
                                     World, r, "single")))
    /\ calls' = calls + 1
    /\ UNCHANGED <<now, cache_enabled, instagram_business_account_id,
                   cache_ttl_seconds>>

\* Task p calls publish_media(m): the account id is checked; an image is
\* fetched for validation first, anything else goes to step 1.
CallPublishMedia(p, m) ==
    /\ CanStart(p)
    /\ LET t == [IdleTask EXCEPT
                     !.op = "publish_media", !.media = m,
                     !.account_id = IF instagram_business_account_id = None
                                    THEN "" ELSE Get(instagram_business_account_id)]
       IN  Apply(p,
               IF instagram_business_account_id = None
               THEN Step(Done(t, Raised(InstagramAPIError(
                        <<"Instagram business account ID not configured">>,
                        None, None))), World)
               ELSE IF m.image_url # None
               THEN Step([t EXCEPT !.pc = "image"], World)
               ELSE Continue(CreateContainer(t, World)))
    /\ calls' = calls + 1
    /\ UNCHANGED <<now, cache_enabled, instagram_business_account_id,
                   cache_ttl_seconds>>

\* Task p calls one of the operations that start with the account id check.
CallGetProfileInfo(p, account_id) ==
    /\ CanStart(p)
    /\ Apply(p, Continue(get_profile_info(IdleTask, World, account_id)))
    /\ calls' = calls + 1
    /\ UNCHANGED <<now, cache_enabled, instagram_business_account_id,
                   cache_ttl_seconds>>

CallGetMediaPosts(p, account_id) ==
    /\ CanStart(p)
    /\ Apply(p, Continue(get_media_posts(IdleTask, World, account_id)))
    /\ calls' = calls + 1
    /\ UNCHANGED <<now, cache_enabled, instagram_business_account_id,
                   cache_ttl_seconds>>

CallGetAccountInsights(p, account_id) ==
    /\ CanStart(p)
    /\ Apply(p, Continue(get_account_insights(IdleTask, World, account_id)))
    /\ calls' = calls + 1
    /\ UNCHANGED <<now, cache_enabled, instagram_business_account_id,
                   cache_ttl_seconds>>

\* Task p calls get_media_insights("media1").
CallGetMediaInsights(p) ==
    /\ CanStart(p)
    /\ Apply(p, Continue(get_media_insights(IdleTask, World, "media1")))
    /\ calls' = calls + 1
    /\ UNCHANGED <<now, cache_enabled, instagram_business_account_id,
                   cache_ttl_seconds>>

\* Task p calls get_account_pages().
CallGetAccountPages(p) ==
    /\ CanStart(p)
    /\ Apply(p, Continue(get_account_pages(
                    [IdleTask EXCEPT !.op = "get_account_pages"], World,
                    "single")))
    /\ calls' = calls + 1
    /\ UNCHANGED <<now, cache_enabled, instagram_business_account_id,
                   cache_ttl_seconds>>

\* Task p calls get_conversations(page_id).
CallGetConversations(p, page_id) ==
    /\ CanStart(p)
    /\ Apply(p, Continue(get_conversations(IdleTask, World, page_id)))
    /\ calls' = calls + 1
    /\ UNCHANGED <<now, cache_enabled, instagram_business_account_id,
                   cache_ttl_seconds>>

\* Task p calls get_conversation_messages("conv").
CallGetConversationMessages(p) ==
    /\ CanStart(p)
    /\ Apply(p, Continue(get_conversation_messages(IdleTask, World, "conv")))
    /\ calls' = calls + 1
    /\ UNCHANGED <<now, cache_enabled, instagram_business_account_id,
                   cache_ttl_seconds>>

\* Task p calls send_dm(SendDMRequest(recipient_id="user", message=...)).
CallSendDM(p) ==
    /\ CanStart(p)
    /\ Apply(p, Continue(send_dm(IdleTask, World, "user")))
    /\ calls' = calls + 1
    /\ UNCHANGED <<now, cache_enabled, instagram_business_account_id,
                   cache_ttl_seconds>>

\* Task p calls validate_access_token().
CallValidateAccessToken(p) ==
    /\ CanStart(p)
    /\ Apply(p, Continue(validate_access_token(IdleTask, World)))
    /\ calls' = calls + 1
    /\ UNCHANGED <<now, cache_enabled, instagram_business_account_id,
                   cache_ttl_seconds>>

\* The image fetch of task p ends with img.
ImageFetched(p, img) ==
    /\ Quiet
    /\ tasks[p].pc = "image"
    /\ LET failure == _validate_image_aspect_ratio(img)
       IN  Apply(p,
               IF failure # None
               THEN Step(PublishFailed([tasks[p] EXCEPT !.image = Some(img)],
                                       "precondition", Get(failure)),
                         World)
               ELSE Continue(CreateContainer(
                                 [tasks[p] EXCEPT !.image = Some(img)], World)))
    /\ UNCHANGED <<now, cache_enabled, calls, instagram_business_account_id,
                   cache_ttl_seconds>>

\* Task p, asleep in Throttler.acquire(), wakes up and tries again.
Wake(p) ==
    /\ Quiet
    /\ tasks[p].pc = "sleep"
    /\ Apply(p, Continue(Acquire(tasks[p], World)))
    /\ UNCHANGED <<now, cache_enabled, calls, instagram_business_account_id,
                   cache_ttl_seconds>>

\* The HTTP call of task p ends with resp.
Respond(p, resp) ==
    /\ Quiet
    /\ tasks[p].pc = "http"
    /\ Apply(p, Continue(HandleResponse(
                    [tasks[p] EXCEPT !.response = Some(resp),
                                     !.answers = Append(@, [phase |-> tasks[p].phase,
                                                            resp |-> resp])],
                    World, resp)))
    /\ UNCHANGED <<now, cache_enabled, calls, instagram_business_account_id,
                   cache_ttl_seconds>>

\* asyncio.CancelledError: a BaseException, which no `except` clause of the
\* client catches.
CancelledError == Exc("CancelledError", <<>>, None, None)

\* A slip in the cancellation of a call: the slot it had reserved is given
\* back to the limiter.
CancelledRelease(t, w) ==
    Step(Done(t, Raised(CancelledError)),
         IF t.pc = "http" /\ w.logs # <<>>
         THEN [w EXCEPT !.logs = SubSeq(@, 1, Len(@) - 1)] ELSE w)

\* Task t is cancelled at the await it is suspended at: CancelledError is
\* raised there and leaves the operation through every frame; no handler
\* and no cleanup of the client runs, the HTTP call is given up.
Cancelled(t, w) == Step(Done(t, Raised(CancelledError)), w)

\* The caller of task p cancels it while it is suspended at the limiter, at
\* its HTTP call or at the image fetch.
Cancel(p) ==
    /\ Quiet
    /\ tasks[p].pc \in {"sleep", "http", "image"}
    /\ Apply(p, Cancelled(tasks[p], World))
    /\ UNCHANGED <<now, cache_enabled, calls, instagram_business_account_id,
                   cache_ttl_seconds>>

\* Entries handed to _is_cache_valid directly.
ProbeEntries ==
    { [cached_at |-> isoformat(0)],
      [expires_at |-> isoformat(1)],
      [expires_at |-> isoformat(MaxTime)] }

\* Task p calls _is_cache_valid(e).
CallIsCacheValid(p, e) ==
    /\ CanStart(p)
    /\ tasks' = [tasks EXCEPT ![p] =
                    Done([IdleTask EXCEPT
                              !.op = "_is_cache_valid",
                              !.valid = Some(_is_cache_valid(e)),
                              !.lookup = Some([at |-> now,
                                               enabled |-> cache_enabled,
                                               entry |-> e])],
                         Pending)]
    /\ calls' = calls + 1
    /\ UNCHANGED <<now, cache_enabled, cache, task_logs, window, stored,
                   create_failure, instagram_business_account_id,
                   cache_ttl_seconds, waiting>>

\* The caller of task p takes what the operation handed back.
TakeResult(p) ==
    /\ tasks[p].pc = "done"
    /\ tasks' = [tasks EXCEPT ![p] = IdleTask]
    /\ UNCHANGED <<now, cache_enabled, cache, task_logs, calls, window, stored,
                   create_failure, instagram_business_account_id,
                   cache_ttl_seconds, waiting>>

\* settings.cache_enabled is set to b.
SetCacheEnabled(b) ==
    /\ Quiet
    /\ cache_enabled # b
    /\ cache_enabled' = b
    /\ UNCHANGED <<now, cache, task_logs, tasks, calls, window, stored,
                   create_failure, instagram_business_account_id,
                   cache_ttl_seconds, waiting>>

\* Time passes; the calls issued a period ago leave the trailing window.
Tick ==
    /\ Quiet
    /\ now < MaxTime
    /\ now' = now + 1
    /\ window' = SelectSeq(window, LAMBDA t : now' - t < Period)
    /\ UNCHANGED <<cache_enabled, cache, task_logs, tasks, calls, stored,
                   create_failure, instagram_business_account_id,
                   cache_ttl_seconds, waiting>>

Next ==
    \/ \E p \in Procs, r \in RequestInputs : CallMakeRequest(p, r)
    \/ \E p \in Procs, m \in PublishInputs : CallPublishMedia(p, m)
    \/ \E p \in Procs, img \in Images : ImageFetched(p, img)
    \/ \E p \in Procs : Wake(p)
    \/ \E p \in Procs, resp \in Responses : Respond(p, resp)
    \/ \E p \in Procs, e \in ProbeEntries : CallIsCacheValid(p, e)
    \/ \E p \in Procs : TakeResult(p)
    \/ \E b \in BOOLEAN : SetCacheEnabled(b)
    \/ Tick

Spec == Init /\ [][Next]_vars

\* ------------------------------------------- the gateway operations
\* Error envelopes of the remote service, for the operations' callers.
RemoteErrors ==
    { Response(TRUE, 200, TRUE, TRUE,
               Envelope(Some(<<"This feature is ", "temporarily", " ",
                               "unavailable">>), Some(2), None),
               NoPayload),
      Response(TRUE, 200, TRUE, TRUE,
               Envelope(Some(<<"Service error">>), Some(2), None), NoPayload),
      Response(TRUE, 200, TRUE, TRUE,
               Envelope(Some(<<"Invalid OAuth ", "access", " token">>),
                        Some(190), None),
               NoPayload),
      Response(TRUE, 400, TRUE, TRUE,
               Envelope(Some(<<"(", "#2", "00) ", "Permissions", " error">>),
                        Some(200), None),
               NoPayload) }

\* The account id the operations' callers hand over.
AccountIds == {None, Some("acct")}
\* The page id the callers of get_conversations hand over.
PageIds == {None, Some("page")}

\* The client with or without a configured account.
InitOps ==
    /\ now = 0
    /\ cache_enabled = TRUE
    /\ cache = <<>>
    /\ task_logs = <<>>
    /\ tasks = [p \in Procs |-> IdleTask]
    /\ calls = 0
    /\ window = <<>>
    /\ stored = <<>>
    /\ create_failure = None
    /\ instagram_business_account_id \in AccountIds
    /\ waiting = <<>>
    /\ cache_ttl_seconds = CacheTTL

\* The callers run the operations within one tick of the clock: what the
\* passing of time does to the cache and to the limiter is the matter of Spec.
NextOps ==
    \/ \E p \in Procs, a \in AccountIds : CallGetProfileInfo(p, a)
    \/ \E p \in Procs, a \in AccountIds : CallGetMediaPosts(p, a)
    \/ \E p \in Procs, a \in AccountIds : CallGetAccountInsights(p, a)
    \/ \E p \in Procs : CallGetMediaInsights(p)
    \/ \E p \in Procs : CallGetAccountPages(p)
    \/ \E p \in Procs, m \in PublishInputs : CallPublishMedia(p, m)
    \/ \E p \in Procs, img \in Images : ImageFetched(p, img)
    \/ \E p \in Procs, g \in PageIds : CallGetConversations(p, g)
    \/ \E p \in Procs : CallGetConversationMessages(p)
    \/ \E p \in Procs : CallSendDM(p)
    \/ \E p \in Procs : Wake(p)
    \/ \E p \in Procs, resp \in Responses \cup RemoteErrors : Respond(p, resp)
    \/ \E p \in Procs : TakeResult(p)

OpsSpec == InitOps /\ [][NextOps]_vars

\* ------------------------------------------- the limiter under load
\* Callers that call _make_request again and again, for as long as they
\* like; time is read relative to the present, so that it never ends.
\* The request they make: a GET that is not to be cached.
BusyRequest ==
    Request("GET", "test_endpoint", <<<<"fields", "id">>>>, <<>>, FALSE, FALSE)

\* Task p calls _make_request(BusyRequest) once more.
Invoke(p) ==
    /\ Quiet
    /\ tasks[p].pc = "idle"
    /\ Apply(p, Continue(MakeRequest([IdleTask EXCEPT !.op = "_make_request",
                                                      !.passed = BusyRequest.params],
                                     World, BusyRequest, "single")))
    /\ UNCHANGED <<now, cache_enabled, calls, instagram_business_account_id,
                   cache_ttl_seconds>>

\* One tick passes: every time on record lies one tick further in the past.
\* A time more than a period ago is kept as that: flush() drops it whatever
\* its age.
Elapse ==
    /\ Quiet
    /\ task_logs' = [i \in 1..Len(task_logs) |->
                        IF task_logs[i] - 1 < now - Period - 1
                        THEN now - Period - 1 ELSE task_logs[i] - 1]
    /\ window' = SelectSeq([i \in 1..Len(window) |-> window[i] - 1],
                           LAMBDA t : now - t < Period)
    /\ UNCHANGED <<now, cache_enabled, cache, tasks, calls, stored,
                   create_failure, instagram_business_account_id,
                   cache_ttl_seconds, waiting>>

NextBusy ==
    \/ \E p \in Procs : Invoke(p)
    \/ \E p \in Procs : Wake(p)
    \/ \E p \in Procs, resp \in Responses : Respond(p, resp)
    \/ \E p \in Procs : TakeResult(p)
    \/ Elapse

\* The event loop runs every task that is ready: a sleeper whose sleep is
\* over wakes up, an HTTP call ends (its timeout is finite), a result is
\* taken, and time passes.
Fairness ==
    /\ WF_vars(Elapse)
    /\ \A p \in Procs :
        /\ WF_vars(Wake(p))
        /\ WF_vars(\E resp \in Responses : Respond(p, resp))
        /\ WF_vars(TakeResult(p))

FairSpec == Init /\ [][NextBusy]_vars /\ Fairness

\* ------------------------------------------------- the publish workflow
\* Callers of publish_media alone, with every shape of PublishMediaRequest
\* (the model validates neither url) and a remote service that numbers the
\* objects it creates.
BothMedia == Media(Some("img"), Some("vid"))
PublishRequests == PublishInputs \cup {BothMedia}

PublishResponses ==
    { Response(FALSE, 0, FALSE, FALSE, NoEnvelope, NoPayload),
      Response(TRUE, 200, TRUE, FALSE, NoEnvelope, Payload(Some("id1"), "v1")),
      Response(TRUE, 200, TRUE, FALSE, NoEnvelope, Payload(Some("id2"), "v1")),
      Response(TRUE, 200, TRUE, FALSE, NoEnvelope, Payload(None, "v2")),
      Response(TRUE, 200, TRUE, TRUE,
               Envelope(Some(<<"Invalid parameter">>), Some(100), Some(1234)),
               NoPayload) }

NextPublish ==
    \/ \E p \in Procs, m \in PublishRequests : CallPublishMedia(p, m)
    \/ \E p \in Procs, img \in Images : ImageFetched(p, img)
    \/ \E p \in Procs : Wake(p)
    \/ \E p \in Procs, resp \in PublishResponses : Respond(p, resp)
    \/ \E p \in Procs : TakeResult(p)
    \/ Tick

PublishSpec == Init /\ [][NextPublish]_vars

\* ------------------------------------------------- the token check
\* validate_access_token next to a caller that reads the same object through
\* the cache, and to callers that keep the limiter busy.
ProfileRequest ==
    Request("GET", "me", <<<<"fields", "id">>>>, <<>>, TRUE, FALSE)

NextToken ==
    \/ \E p \in Procs : CallMakeRequest(p, ProfileRequest)
    \/ \E p \in Procs : Invoke(p)
    \/ \E p \in Procs : CallValidateAccessToken(p)
    \/ \E p \in Procs : Wake(p)
    \/ \E p \in Procs, resp \in Responses : Respond(p, resp)
    \/ \E p \in Procs : TakeResult(p)
    \/ Tick

TokenSpec == Init /\ [][NextToken]_vars

\* ------------------------------------------------- cancellation
\* Callers that may give up a call they are waiting for.
NextCancel ==
    \/ \E p \in Procs : CallMakeRequest(p, ProfileRequest)
    \/ \E p \in Procs : CallGetMediaInsights(p)
    \/ \E p \in Procs, m \in PublishInputs : CallPublishMedia(p, m)
    \/ \E p \in Procs, img \in Images : ImageFetched(p, img)
    \/ \E p \in Procs : Wake(p)
    \/ \E p \in Procs, resp \in Responses : Respond(p, resp)
    \/ \E p \in Procs : Cancel(p)
    \/ \E p \in Procs : TakeResult(p)
    \/ Tick

CancelSpec == Init /\ [][NextCancel]_vars

\* ------------------------------------------------- the dispatcher alone
\* Direct callers of _make_request, reads and writes of one endpoint, next
\* to callers that keep the limiter busy.
NextDispatch ==
    \/ \E p \in Procs, r \in RequestInputs : CallMakeRequest(p, r)
    \/ \E p \in Procs : Invoke(p)
    \/ \E p \in Procs : Wake(p)
    \/ \E p \in Procs, resp \in Responses : Respond(p, resp)
    \/ \E p \in Procs : TakeResult(p)
    \/ Tick

DispatchSpec == Init /\ [][NextDispatch]_vars

\* ------------------------------------------------- the configured TTL
\* Settings.cache_ttl_seconds is an int field with no lower bound: zero and
\* negative values are accepted as they are.
TtlValues == -1 .. CacheTTL

InitTtl ==
    /\ now = 0
    /\ cache_enabled = TRUE
    /\ cache = <<>>
    /\ task_logs = <<>>
    /\ tasks = [p \in Procs |-> IdleTask]
    /\ calls = 0
    /\ window = <<>>
    /\ stored = <<>>
    /\ create_failure = None
    /\ instagram_business_account_id = Some("acct")
    /\ waiting = <<>>
    /\ cache_ttl_seconds \in TtlValues

NextTtl ==
    \/ \E p \in Procs : CallMakeRequest(p, ProfileRequest)
    \/ \E p \in Procs : Invoke(p)
    \/ \E p \in Procs : Wake(p)
    \/ \E p \in Procs, resp \in Responses : Respond(p, resp)
    \/ \E p \in Procs : TakeResult(p)
    \/ Tick

TtlSpec == InitTtl /\ [][NextTtl]_vars

\* ------------------------------------------------- the slots of the limiter
\* Direct calls of the dispatcher, of every method, next to publish_media of
\* a video (no image is fetched).
VideoMedia == Media(None, Some("vid"))

NextSlots ==
    \/ \E p \in Procs, r \in RequestInputs : CallMakeRequest(p, r)
    \/ \E p \in Procs : CallPublishMedia(p, VideoMedia)
    \/ \E p \in Procs : Wake(p)
    \/ \E p \in Procs, resp \in Responses : Respond(p, resp)
    \/ \E p \in Procs : TakeResult(p)
    \/ Tick

SlotSpec == Init /\ [][NextSlots]_vars

\* ------------------------------------------------- the two hosts
\* Direct calls of the dispatcher for one endpoint with the same params, to be
\* cached, addressed to the one host and to the other.
HostInputs ==
    { Request("GET", "me", <<<<"fields", "id">>>>, <<>>, TRUE, FALSE),
      Request("GET", "me", <<<<"fields", "id">>>>, <<>>, TRUE, TRUE) }

NextHost ==
    \/ \E p \in Procs, r \in HostInputs : CallMakeRequest(p, r)
    \/ \E p \in Procs : Invoke(p)
    \/ \E p \in Procs : Wake(p)
    \/ \E p \in Procs, resp \in Responses : Respond(p, resp)
    \/ \E p \in Procs : TakeResult(p)
    \/ Tick

HostSpec == Init /\ [][NextHost]_vars

\* ------------------------------------------------- the cache key alone
\* _get_cache_key called directly, as test_cache_key_generation does.  The
\* params dicts handed over: up to two items, the values of type str or int.
ParamNames == {"fields", "limit"}
ParamValues == {"id", "25", "<int 25>"}
ParamMaps ==
    {<<>>}
    \cup {<<<<n, v>>>> : n \in ParamNames, v \in ParamValues}
    \cup {<<<<n[1], v[1]>>, <<n[2], v[2]>>>> :
             n \in {m \in ParamNames \X ParamNames : m[1] # m[2]},
             v \in ParamValues \X ParamValues}
Endpoints == {"test_endpoint", "me"}

\* Task p calls _get_cache_key(endpoint, params).  The function does not
\* suspend; its result stays with the task until the caller takes it, so
\* that the results of two calls can be held side by side.
CallGetCacheKey(p, endpoint, params) ==
    /\ tasks[p].pc = "idle"
    /\ tasks' = [tasks EXCEPT ![p] =
                    Done([IdleTask EXCEPT
                              !.op = "_get_cache_key",
                              !.req = [NoRequest EXCEPT !.endpoint = endpoint,
                                                        !.params = params],
                              !.key = _get_cache_key(endpoint, params)],
                         Pending)]
    /\ UNCHANGED <<now, cache_enabled, cache, task_logs, calls, window, stored,
                   create_failure, instagram_business_account_id,
                   cache_ttl_seconds, waiting>>

NextKey ==
    \/ \E p \in Procs, endpoint \in Endpoints, params \in ParamMaps :
            CallGetCacheKey(p, endpoint, params)
    \/ \E p \in Procs : TakeResult(p)

KeySpec == Init /\ [][NextKey]_vars

\* ---------------------------------------------- the image validator alone
\* The sizes Image.open measures: every width and height up to a bound, and
\* the three sizes the specification names.
MaxWidth == 200
MaxHeight == 100
Measured ==
    {Image(TRUE, TRUE, width, height) :
        width \in 0..MaxWidth, height \in 1..MaxHeight}
    \cup {Image(TRUE, TRUE, 1000, 800), Image(TRUE, TRUE, 1000, 1000),
          Image(TRUE, TRUE, 1000, 1056)}

\* Task p calls _validate_image_aspect_ratio on an image that is fetched and
\* measured at one of the sizes: it returns None or raises.
CallValidateImage(p) ==
    /\ Quiet
    /\ tasks[p].pc = "idle"
    /\ \E img \in Measured :
        LET failure == _validate_image_aspect_ratio(img)
            t == [IdleTask EXCEPT !.op = "_validate_image_aspect_ratio",
                                  !.image = Some(img)]
        IN  tasks' = [tasks EXCEPT ![p] =
                         IF failure = None THEN Done(t, Returned(NoPayload))
                         ELSE Done(t, Raised(Get(failure)))]
    /\ UNCHANGED <<now, cache_enabled, cache, task_logs, calls, window, stored,
                   create_failure, instagram_business_account_id,
                   cache_ttl_seconds, waiting>>

NextRatio ==
    \/ \E p \in Procs : CallValidateImage(p)
    \/ \E p \in Procs : TakeResult(p)

RatioSpec == Init /\ [][NextRatio]_vars

\* --------------------------------------------------------------- claims
\* What the formulas below say of one task.
IsGet(t) == Upper(t.req.method) = "GET"
Cacheable(t) == IsGet(t) /\ t.req.use_cache
Direct(t) == t.op = "_make_request"
Publishing(t) == t.op = "publish_media"
Succeeded(t) == t.pc = "done" /\ t.out.kind = "value"
Failed(t) == t.pc = "done" /\ t.out.kind = "error"
Phases(t) == [i \in 1..Len(t.issued) |-> t.issued[i].phase]
\* The cache check of t found an entry e, at time at, caching enabled or not.
Found(t) == Direct(t) /\ t.lookup # None
Looked(t) == Get(t.lookup)
Age(t) == Looked(t).at - fromisoformat(Looked(t).entry.cached_at)

\* C1: at no time do more than RateLimit HTTP calls of the dispatcher lie in
\* the trailing window of one period, and a task asleep at the limiter has
\* issued no HTTP call for the dispatcher call it is in.
C1_RateWindow ==
    /\ Len(window) <= RateLimit
    /\ \A p \in Procs :
        tasks[p].pc = "sleep" =>
            \A i \in 1..Len(tasks[p].issued) :
                tasks[p].issued[i].phase # tasks[p].phase

\* C1 witness: the window is full and a task is asleep at the limiter.
C1_Witness ==
    \E p \in Procs : tasks[p].pc = "sleep" /\ Len(window) = RateLimit

\* C2: a publish_media that returns has issued the create request once and
\* the commit request once, in this order; one that failed in its create
\* phase has issued the create request alone; the commit request is never
\* issued but after the create request.
C2_PublishOrdering ==
    \A p \in Procs :
        Publishing(tasks[p]) =>
            /\ Phases(tasks[p]) \in {<<>>, <<"create">>, <<"create", "commit">>}
            /\ Succeeded(tasks[p]) =>
                /\ Phases(tasks[p]) = <<"create", "commit">>
                /\ tasks[p].issued[1].endpoint = "acct/media"
                /\ tasks[p].issued[2].endpoint = "acct/media_publish"
            /\ tasks[p].failed_at = "create" => Phases(tasks[p]) = <<"create">>

\* C2 witness: a publish_media has returned its published id.
C2_Witness == \E p \in Procs : Publishing(tasks[p]) /\ Succeeded(tasks[p])

\* C3: the error of a publish_media that failed in its commit phase, after
\* the container was created, differs from the error of one that failed in
\* its create phase.
C3_PhaseIdentified ==
    \A p \in Procs :
        (Publishing(tasks[p]) /\ Failed(tasks[p]) /\ tasks[p].failed_at = "commit")
            => tasks[p].out.error \notin create_failure

\* C4: a GET of _make_request with caching allowed that finds an unexpired
\* entry under its key, caching enabled, returns the entry's data, reserves no
\* limiter slot and issues no HTTP call.
C4_CacheHitBypass ==
    \A p \in Procs :
        (/\ Found(tasks[p])
         /\ Looked(tasks[p]).enabled
         /\ fromisoformat(Looked(tasks[p]).entry.expires_at) > Looked(tasks[p]).at)
            => /\ tasks[p].pc = "done"
               /\ tasks[p].out = Returned(Looked(tasks[p]).entry.data)
               /\ tasks[p].slots = 0
               /\ tasks[p].issued = <<>>

\* C4 witness: a call was answered from the cache.
C4_Witness == \E p \in Procs : Direct(tasks[p]) /\ tasks[p].hit

C6_CacheTTL ==
    \A p \in Procs :
        /\ (Found(tasks[p]) /\ Looked(tasks[p]).enabled) =>
            /\ tasks[p].hit <=> Age(tasks[p]) < cache_ttl_seconds
            /\ tasks[p].hit =>
                tasks[p].out = Returned(Looked(tasks[p]).entry.data)
            /\ ~tasks[p].hit =>
                \/ tasks[p].pc = "sleep" /\ tasks[p].issued = <<>>
                \/ tasks[p].slots = 1 /\ Len(tasks[p].issued) = 1
        /\ (/\ tasks[p].op = "_is_cache_valid"
            /\ "expires_at" \notin DOMAIN Get(tasks[p].lookup).entry)
                => tasks[p].valid = Some(FALSE)

\* C6 witness: a cache check found an entry whose TTL had passed, and the call
\* went to the network.
C6_Witness ==
    \E p \in Procs :
        /\ Found(tasks[p]) /\ Looked(tasks[p]).enabled
        /\ Age(tasks[p]) >= cache_ttl_seconds
        /\ Len(tasks[p].issued) = 1

\* C7: while caching is disabled no step changes the cache, and every GET of
\* _make_request that ends was not answered from the cache, reserved one
\* limiter slot and issued one HTTP call.
C7_CacheDisabled ==
    [][~cache_enabled =>
        /\ cache' = cache
        /\ \A p \in Procs :
            (/\ tasks[p].pc # "done"
             /\ tasks'[p].pc = "done"
             /\ Direct(tasks'[p])
             /\ IsGet(tasks'[p]))
                => /\ ~tasks'[p].hit
                   /\ tasks'[p].slots = 1
                   /\ Len(tasks'[p].issued) = 1]_vars

\* C7 witness: with caching disabled, a cacheable GET whose key holds an
\* unexpired entry stored earlier has been to the network.
C7_Witness ==
    \E p \in Procs :
        /\ ~cache_enabled
        /\ Found(tasks[p]) /\ ~Looked(tasks[p]).enabled
        /\ Age(tasks[p]) < cache_ttl_seconds
        /\ Succeeded(tasks[p]) /\ Len(tasks[p].issued) = 1

\* C8: a step in which an operation ends in failure leaves the cache as it
\* was, and the operation has stored nothing before.
C8_FailuresNotCached ==
    [][\A p \in Procs :
        (tasks[p].pc # "done" /\ Failed(tasks'[p]))
            => cache' = cache /\ ~tasks'[p].wrote]_vars

\* C8 witness: a cacheable GET has failed after its HTTP call.
C8_Witness ==
    \E p \in Procs :
        /\ Direct(tasks[p]) /\ Cacheable(tasks[p]) /\ Failed(tasks[p])
        /\ Len(tasks[p].issued) = 1

\* C9: no dispatcher call issues a second HTTP call: the HTTP calls of one
\* operation belong to different dispatcher calls, and _make_request on its
\* own issues at most one.
C9_NoRetry ==
    \A p \in Procs :
        /\ \A i, j \in 1..Len(tasks[p].issued) :
            i # j => tasks[p].issued[i].phase # tasks[p].issued[j].phase
        /\ Direct(tasks[p]) => Len(tasks[p].issued) <= 1

\* C9 witness: a publish_media has failed in its commit phase, two HTTP calls
\* issued.
C9_Witness ==
    \E p \in Procs :
        /\ Publishing(tasks[p]) /\ Failed(tasks[p])
        /\ tasks[p].failed_at = "commit" /\ Len(tasks[p].issued) = 2

\* C10: _make_request whose HTTP call ends with status 429 raises
\* RateLimitExceeded, whatever the body.
C10_Status429 ==
    \A p \in Procs :
        (/\ Direct(tasks[p])
         /\ tasks[p].response # None
         /\ Get(tasks[p].response).transport_ok
         /\ Get(tasks[p].response).status = 429)
            => /\ Failed(tasks[p])
               /\ tasks[p].out.error.type = "RateLimitExceeded"

\* C10 witness: a 429 response whose body holds an error envelope was handled.
C10_Witness ==
    \E p \in Procs :
        /\ Direct(tasks[p]) /\ tasks[p].pc = "done"
        /\ tasks[p].response # None
        /\ Get(tasks[p].response).status = 429
        /\ Get(tasks[p].response).has_error

\* C11: _make_request whose HTTP call ends with a parsed body that holds an
\* error envelope (the status not 429) raises InstagramAPIError with the
\* envelope's message, code and error_subcode, each None when the envelope
\* omits it ("Unknown error" for the message), and returns no payload.
C11_EnvelopeError ==
    \A p \in Procs :
        (/\ Direct(tasks[p])
         /\ tasks[p].response # None
         /\ Get(tasks[p].response).transport_ok
         /\ Get(tasks[p].response).status # 429
         /\ Get(tasks[p].response).json_ok
         /\ Get(tasks[p].response).has_error)
            => LET envelope == Get(tasks[p].response).envelope IN
               /\ Failed(tasks[p])
               /\ tasks[p].out.value = NoPayload
               /\ tasks[p].out.error.type = "InstagramAPIError"
               /\ tasks[p].out.error.code = envelope.code
               /\ tasks[p].out.error.subcode = envelope.subcode
               /\ envelope.message # None =>
                    tasks[p].out.error.message = Get(envelope.message)
               /\ envelope.message = None =>
                    tasks[p].out.error.message = <<"Unknown error">>

\* C11 witness: an envelope with message, code and subcode was raised.
C11_Witness ==
    \E p \in Procs :
        /\ Direct(tasks[p]) /\ Failed(tasks[p])
        /\ tasks[p].out.error.message = <<"Invalid parameter">>
        /\ tasks[p].out.error.code = Some(100)
        /\ tasks[p].out.error.subcode = Some(1234)

\* What the formulas below say of the gateway operations.
GatewayOps ==
    {"get_profile_info", "get_media_posts", "get_media_insights",
     "get_account_insights", "get_account_pages", "publish_media",
     "get_conversations", "get_conversation_messages", "send_dm"}
AccountOps ==
    {"get_profile_info", "get_media_posts", "get_account_insights",
     "publish_media"}
\* The last request of a messaging operation: the conversations of a page,
\* the messages of a conversation, the message sent.
Messaging(t) ==
    \/ t.op = "get_conversations" /\ t.phase = "conversations"
    \/ t.op \in {"get_conversation_messages", "send_dm"}
\* What _make_request hands back for the response resp.
RaisedBy(resp) == HandleResponse(IdleTask, World, resp).t.out
\* The dispatcher call of t ended with a response for which it raised.
DispatcherFailed(t) ==
    /\ t.pc = "done"
    /\ t.response # None
    /\ RaisedBy(Get(t.response)).kind = "error"
\* The HTTP call of t ended with an error envelope, which was parsed.
EnvelopeRaised(t) ==
    /\ t.pc = "done"
    /\ t.response # None
    /\ Get(t.response).transport_ok /\ Get(t.response).status # 429
    /\ Get(t.response).json_ok /\ Get(t.response).has_error
\* The text `text` holds the text `part`.
HoldsText(text, part) ==
    \E i \in 1..Len(text) :
        i + Len(part) - 1 <= Len(text) /\ SubSeq(text, i, i + Len(part) - 1) = part
Remediated(e) == HoldsText(e.message, REMEDIATION)

\* C12: a gateway operation whose dispatcher call raised fails with an error
\* of the class the dispatcher raised (RateLimitExceeded for a 429), with its
\* code and subcode, and with its message.
C12_CategoryKept ==
    \A p \in Procs :
        (tasks[p].op \in GatewayOps /\ DispatcherFailed(tasks[p])) =>
            LET e == RaisedBy(Get(tasks[p].response)).error IN
            /\ Failed(tasks[p])
            /\ tasks[p].out.error.type = e.type
            /\ tasks[p].out.error.code = e.code
            /\ tasks[p].out.error.subcode = e.subcode
            /\ HoldsText(tasks[p].out.error.message, e.message)

\* C13: a gateway operation whose HTTP call ended with an error envelope
\* fails with the envelope's message followed by the remediation text when
\* the code is 2 or the message holds "unavailable" or "temporarily" in any
\* letter case, and with no remediation text otherwise.
C13_Classification ==
    \A p \in Procs :
        (tasks[p].op \in GatewayOps /\ EnvelopeRaised(tasks[p])) =>
            LET envelope == Get(tasks[p].response).envelope
                message == EnvelopeError(envelope).message
                gated == \/ envelope.code = Some(2)
                         \/ Contains(LowerText(message), "unavailable")
                         \/ Contains(LowerText(message), "temporarily")
            IN  /\ Failed(tasks[p])
                /\ gated => tasks[p].out.error.message = message \o REMEDIATION
                /\ ~gated => ~Remediated(tasks[p].out.error)

\* C14: a messaging operation whose dispatcher call raised appends the
\* remediation text exactly when get_conversations does for the same error.
C14_SameDecision ==
    \A p \in Procs :
        (Messaging(tasks[p]) /\ DispatcherFailed(tasks[p])) =>
            (Remediated(tasks[p].out.error)
                <=> ConversationsNeedsAccess(
                        RaisedBy(Get(tasks[p].response)).error.message))

\* C15: the cache holds no response of a conversations or messages read,
\* and a get_conversations or get_conversation_messages whose read has ended
\* was not answered from the cache: it has reserved a limiter slot and issued
\* an HTTP call to the messaging host.
C15_NotCached ==
    /\ \A key \in DOMAIN cache :
            key[1] \notin {"page/conversations", "id1/conversations", "conv"}
    /\ \A p \in Procs :
            (/\ tasks[p].op \in {"get_conversations", "get_conversation_messages"}
             /\ Messaging(tasks[p])
             /\ tasks[p].pc = "done")
                => /\ tasks[p].slots >= 1
                   /\ \E i \in 1..Len(tasks[p].issued) :
                           tasks[p].issued[i].host = facebook_url

\* C16: publish_media called with neither image_url nor video_url, the
\* account configured, fails at once with the error that one of them is
\* required: no image is fetched, no HTTP call issued, no limiter slot
\* reserved, and the cache is as it was.
C16_NoMedia ==
    [][\A p \in Procs :
        (/\ tasks[p].pc = "idle"
         /\ Publishing(tasks'[p])
         /\ tasks'[p].media = NoMedia
         /\ instagram_business_account_id # None)
            => /\ Failed(tasks'[p])
               /\ tasks'[p].out.error =
                    InstagramAPIError(
                        <<"Failed to publish media: ",
                          "Either image_url or video_url is required">>,
                        None, None)
               /\ tasks'[p].image = None
               /\ tasks'[p].issued = <<>>
               /\ tasks'[p].slots = 0
               /\ cache' = cache
               /\ task_logs' = task_logs
               /\ window' = window]_vars

\* C16 witness: a publish_media without media has failed.
C16_Witness ==
    \E p \in Procs :
        /\ Publishing(tasks[p]) /\ Failed(tasks[p])
        /\ tasks[p].media = NoMedia
        /\ tasks[p].failed_at = "precondition"

\* The image fails the check: it cannot be fetched or decoded, or its ratio
\* lies in none of the bands.
ImageRejected(img) ==
    \/ ~img.fetched
    \/ ~img.decoded
    \/ img.height = 0
    \/ ~RatioAccepted(img.width, img.height)

C18_NotConfigured ==
    [][\A p \in Procs :
        (/\ tasks[p].pc = "idle"
         /\ tasks'[p].op \in AccountOps
         /\ tasks'[p].supplied = None
         /\ instagram_business_account_id = None)
            => /\ Failed(tasks'[p])
               /\ tasks'[p].out.error = NotConfigured
               /\ tasks'[p].image = None
               /\ tasks'[p].issued = <<>>
               /\ tasks'[p].slots = 0
               /\ cache' = cache
               /\ task_logs' = task_logs
               /\ window' = window]_vars

\* C18 witness: a get_media_posts without an account id has failed, no
\* account configured.
C18_Witness ==
    \E p \in Procs :
        /\ instagram_business_account_id = None
        /\ tasks[p].op = "get_media_posts" /\ tasks[p].supplied = None
        /\ Failed(tasks[p])

Items(params) == {params[i] : i \in 1..Len(params)}
KeyOf(t) == t.op = "_get_cache_key" /\ t.pc = "done"

\* C21: for one endpoint, two params dicts with the same items, in whatever
\* order, have the same cache key, and two dicts that differ in a name or in
\* a value have different keys.
C21_KeyStability ==
    \A p, q \in Procs :
        (/\ KeyOf(tasks[p]) /\ KeyOf(tasks[q])
         /\ tasks[p].req.endpoint = tasks[q].req.endpoint)
            => (Items(tasks[p].req.params) = Items(tasks[q].req.params)
                    <=> tasks[p].key = tasks[q].key)

\* The params a caller of _make_request supplied: those of the request
\* without the item the dispatcher adds.
Supplied(params) == SelectSeq(params, LAMBDA item : item[1] # "access_token")
\* The cache key holds the text `text` as a name or as a value.
KeyHolds(key, text) ==
    \E i \in 1..Len(key[3]) :
        key[3][i][1] = quote_plus(text) \/ key[3][i][3] = quote_plus(text)

\* C22: the cache key of a dispatcher call is the key of its endpoint and of
\* the params its caller supplied, whatever the access token, and no key in
\* the cache holds the access token.
C22_TokenFree ==
    /\ \A p \in Procs :
            tasks[p].key = _get_cache_key(tasks[p].req.endpoint,
                                          Supplied(tasks[p].req.params))
    /\ \A key \in DOMAIN cache : ~KeyHolds(key, access_token)

\* A validator call of task t has measured a size.
Validated(t) ==
    /\ t.op = "_validate_image_aspect_ratio" /\ t.pc = "done"
    /\ t.image # None
    /\ Get(t.image).fetched /\ Get(t.image).decoded /\ Get(t.image).height > 0
Size(t) == <<Get(t.image).width, Get(t.image).height>>
\* low <= width / height <= high, the bounds in hundredths.
InBand(size, low, high) ==
    low * size[2] <= 100 * size[1] /\ 100 * size[1] <= high * size[2]

\* C23: the validator accepts a measured size exactly when width / height
\* lies in 0.78-0.82, in 0.98-1.02 or in 1.89-1.93, the bounds included, and
\* raises InstagramAPIError otherwise; 1000 x 1000 is accepted, 1000 x 800
\* and 1000 x 1056 are rejected.
C23_RatioGate ==
    \A p \in Procs :
        Validated(tasks[p]) =>
            /\ Succeeded(tasks[p])
                    <=> \/ InBand(Size(tasks[p]), 78, 82)
                        \/ InBand(Size(tasks[p]), 98, 102)
                        \/ InBand(Size(tasks[p]), 189, 193)
            /\ ~Succeeded(tasks[p]) =>
                    /\ Failed(tasks[p])
                    /\ tasks[p].out.error.type = "InstagramAPIError"
            /\ Size(tasks[p]) = <<1000, 800>> => Failed(tasks[p])
            /\ Size(tasks[p]) = <<1000, 1000>> => Succeeded(tasks[p])
            /\ Size(tasks[p]) = <<1000, 1056>> => Failed(tasks[p])

\* C23 witness: a size on the lower bound of a band, 39 x 50, was accepted.
C23_Witness ==
    \E p \in Procs :
        Validated(tasks[p]) /\ Size(tasks[p]) = <<39, 50>> /\ Succeeded(tasks[p])

\* C24: a publish_media that has issued the create request was called with
\* exactly one of image_url and video_url; with both or with neither it
\* fails, the create request not issued.
C24_ExactlyOne ==
    \A p \in Procs :
        Publishing(tasks[p]) =>
            LET one == (tasks[p].media.image_url = None)
                            # (tasks[p].media.video_url = None)
            IN  /\ tasks[p].issued # <<>> => one
                /\ (~one /\ tasks[p].pc = "done") => Failed(tasks[p])

\* C25: a gateway operation or a _make_request that fails raises
\* InstagramAPIError or a subclass of it, and no exception of another type.
C25_OnlyApiErrors ==
    \A p \in Procs :
        (tasks[p].op \in GatewayOps \cup {"_make_request"} /\ Failed(tasks[p]))
            => IsInstagramAPIError(tasks[p].out.error)

Validating(t) == t.op = "validate_access_token"

\* C26: a validate_access_token that has ended has made one dispatcher call,
\* a GET of "me" that is not to be cached: it was not answered from the
\* cache and stored nothing, one limiter slot was reserved and one HTTP call
\* issued; it has returned True when that call succeeded and False, raising
\* nothing, when it failed with InstagramAPIError.
C26_ValidateToken ==
    \A p \in Procs :
        Validating(tasks[p]) =>
            /\ tasks[p].req.endpoint = "me" /\ IsGet(tasks[p])
            /\ tasks[p].lookup = None /\ ~tasks[p].hit /\ ~tasks[p].wrote
            /\ tasks[p].pc = "done" =>
                /\ tasks[p].slots = 1
                /\ Len(tasks[p].issued) = 1
                /\ tasks[p].issued[1].endpoint = "me"
                /\ tasks[p].response # None
                /\ LET raised == RaisedBy(Get(tasks[p].response)) IN
                   /\ raised.kind = "value" => tasks[p].out = Returned(Bool(TRUE))
                   /\ (raised.kind = "error" /\ IsInstagramAPIError(raised.error))
                        => tasks[p].out = Returned(Bool(FALSE))

\* C26 witness: validate_access_token has returned False while the cache
\* holds an unexpired response of GET me.
C26_Witness ==
    \E p \in Procs :
        /\ Validating(tasks[p]) /\ tasks[p].pc = "done"
        /\ tasks[p].out = Returned(Bool(FALSE))
        /\ tasks[p].key \in DOMAIN cache
        /\ _is_cache_valid(cache[tasks[p].key])

WasCancelled(t) == t.pc = "done" /\ t.out = Raised(CancelledError)

\* C27: the step in which a call is cancelled at the limiter or at its HTTP
\* call leaves the cache, the limiter and every other task as they were, the
\* cancelled call has stored nothing in the cache, and at no time, before or
\* after a cancellation, do more than RateLimit HTTP calls lie in the
\* trailing window.
C27_Cancellation ==
    [][/\ Len(window') <= RateLimit
       /\ \A p \in Procs :
            (tasks[p].pc \in {"sleep", "http"} /\ WasCancelled(tasks'[p]))
                => /\ cache' = cache
                   /\ stored' = stored
                   /\ task_logs' = task_logs
                   /\ ~tasks'[p].wrote
                   /\ \A q \in Procs \ {p} : tasks'[q] = tasks[q]]_vars

\* C27 witness: a call was cancelled at its HTTP call, a limiter slot
\* reserved, while another call is in flight.
C27_Witness ==
    \E p, q \in Procs :
        /\ WasCancelled(tasks[p]) /\ tasks[p].slots = 1
        /\ Len(tasks[p].issued) = 1
        /\ tasks[q].pc = "http"

\* params[name]
Param(params, name) ==
    params[CHOOSE i \in 1..Len(params) : params[i][1] = name][2]

\* C28: get_media_insights called without metrics makes one dispatcher call,
\* a GET of "<media_id>/insights" whose metric parameter is
\* "impressions,reach,likes,comments,shares,saves", and returns the insights
\* built from the items of the response.
C28_DefaultMetrics ==
    \A p \in Procs :
        tasks[p].op = "get_media_insights" =>
            /\ IsGet(tasks[p])
            /\ tasks[p].req.endpoint = "media1/insights"
            /\ Param(tasks[p].req.params, "metric")
                    = "impressions,reach,likes,comments,shares,saves"
            /\ Len(tasks[p].issued) <= 1
            /\ (Succeeded(tasks[p]) /\ tasks[p].response # None) =>
                    tasks[p].out.value
                        = Models("MediaInsight", Get(tasks[p].response).payload)

\* The HTTP calls of t in the phase `phase` that succeeded with an id.
Answered(t, phase) ==
    {i \in 1..Len(t.answers) :
        /\ t.answers[i].phase = phase
        /\ RaisedBy(t.answers[i].resp).kind = "value"
        /\ t.answers[i].resp.payload.id # None}
AnswerId(t, i) == Get(t.answers[i].resp.payload.id)

\* C29: the commit request of a publish_media names as creation_id the id
\* that the response to the create request of the same invocation held,
\* whatever the other invocations do meanwhile, and a publish_media that
\* returns (status published) has had its commit request answered with
\* success, and returns the id of that answer.
C29_ContainerFlow ==
    \A p \in Procs :
        Publishing(tasks[p]) =>
            /\ \A i \in 1..Len(tasks[p].issued) :
                    tasks[p].issued[i].phase = "commit" =>
                        /\ Cardinality(Answered(tasks[p], "create")) = 1
                        /\ \A j \in Answered(tasks[p], "create") :
                                tasks[p].issued[i].data
                                    = <<<<"creation_id", AnswerId(tasks[p], j)>>>>
            /\ Succeeded(tasks[p]) =>
                    /\ tasks[p].out.value.body = "published"
                    /\ Cardinality(Answered(tasks[p], "commit")) = 1
                    /\ \A j \in Answered(tasks[p], "commit") :
                            tasks[p].out.value.id = Some(AnswerId(tasks[p], j))

\* C29 witness: a publish_media has returned for the container id1 while
\* the commit request of another, for the container id2, is in flight.
C29_Witness ==
    \E p, q \in Procs :
        /\ Publishing(tasks[p]) /\ Succeeded(tasks[p])
        /\ tasks[p].container_id = Some("id1")
        /\ Publishing(tasks[q]) /\ tasks[q].pc = "http"
        /\ tasks[q].phase = "commit" /\ tasks[q].container_id = Some("id2")

\* The commit request of t was answered, and not with the id of a
\* published object.
CommitFailed(t) ==
    \E i \in 1..Len(t.answers) :
        t.answers[i].phase = "commit" /\ i \notin Answered(t, "commit")

\* C30: a publish_media whose commit request has failed, its container
\* created, has ended in failure, and the failed commit is its last remote
\* action: it has issued the create request and the commit request, once
\* each, and nothing after them.
C30_NoCompensation ==
    \A p \in Procs :
        (Publishing(tasks[p]) /\ CommitFailed(tasks[p])) =>
            /\ Failed(tasks[p])
            /\ IsInstagramAPIError(tasks[p].out.error)
            /\ Phases(tasks[p]) = <<"create", "commit">>
            /\ Len(tasks[p].answers) = 2
            /\ tasks[p].answers[2].phase = "commit"
            /\ tasks[p].slots = 2

\* C30 witness: a publish_media has failed on an error envelope for its
\* commit request, the container id1 created.
C30_Witness ==
    \E p \in Procs :
        /\ Publishing(tasks[p]) /\ CommitFailed(tasks[p])
        /\ tasks[p].container_id = Some("id1")
        /\ tasks[p].answers[2].resp.has_error

\* The operations of the resource host.
ResourceOps ==
    {"get_profile_info", "get_media_posts", "get_media_insights",
     "get_account_insights", "publish_media"}

\* C31: the conversations request of get_conversations, the request of
\* get_conversation_messages and that of send_dm go to the messaging host;
\* the requests of get_profile_info, get_media_posts, get_media_insights,
\* get_account_insights and the create and commit requests of publish_media
\* go to the resource host (as does the lookup of the pages, which is
\* get_account_pages' request); every request carries the access token of
\* the client as the query parameter access_token.
C31_HostSelection ==
    \A p \in Procs : \A i \in 1..Len(tasks[p].issued) :
        LET call == tasks[p].issued[i] IN
        /\ (\/ tasks[p].op = "get_conversations" /\ call.phase = "conversations"
            \/ tasks[p].op \in {"get_conversation_messages", "send_dm"})
                => call.host = facebook_url
        /\ (\/ tasks[p].op \in ResourceOps
            \/ tasks[p].op = "get_account_pages"
            \/ tasks[p].op = "get_conversations" /\ call.phase = "pages")
                => call.host = base_url
        /\ "access_token" \in Names(call.params)
        /\ Param(call.params, "access_token") = access_token

\* C31 witness: a get_conversations without a page id has looked the pages
\* up at the resource host and asked the messaging host for conversations.
C31_Witness ==
    \E p \in Procs :
        /\ tasks[p].op = "get_conversations" /\ Len(tasks[p].issued) = 2
        /\ tasks[p].issued[1].host = base_url
        /\ tasks[p].issued[2].host = facebook_url
        /\ tasks[p].issued[2].endpoint = "id1/conversations"

IsPost(t) == Upper(t.req.method) = "POST"

\* C32: a POST through _make_request goes to the limiter, whatever the cache
\* holds under its endpoint and parameters, and no step of it changes the
\* cache; the cache changes only in the step in which a GET with caching
\* allowed ends in success, and then the entry under that call's key, and no
\* other, is the value the call returns.
C32_WritesBypassCache ==
    [][/\ \A p \in Procs :
            (tasks'[p] # tasks[p] /\ IsPost(tasks'[p])) =>
                /\ cache' = cache
                /\ ~tasks'[p].hit /\ tasks'[p].lookup = None
                /\ tasks[p].pc = "idle" => tasks'[p].pc \in {"http", "sleep"}
                /\ Succeeded(tasks'[p]) =>
                        /\ Len(tasks'[p].issued) = 1
                        /\ tasks'[p].out.value = Get(tasks'[p].response).payload
       /\ cache' # cache =>
            \E p \in Procs :
                /\ tasks[p].pc = "http" /\ Succeeded(tasks'[p])
                /\ IsGet(tasks'[p]) /\ tasks'[p].req.use_cache
                /\ tasks'[p].key \in DOMAIN cache'
                /\ cache'[tasks'[p].key].data = tasks'[p].out.value
                /\ \A key \in DOMAIN cache' \ {tasks'[p].key} :
                        key \in DOMAIN cache /\ cache'[key] = cache[key]]_vars

\* C32 witness: a POST has succeeded at the network while the cache holds
\* an unexpired response of a GET with the same endpoint and parameters.
C32_Witness ==
    \E p \in Procs :
        /\ Direct(tasks[p]) /\ IsPost(tasks[p]) /\ Succeeded(tasks[p])
        /\ tasks[p].key \in DOMAIN cache
        /\ _is_cache_valid(cache[tasks[p].key])
        /\ Len(tasks[p].issued) = 1

\* C33: every entry that is ever in the cache expires after the instant it
\* was cached, expires_at > cached_at, whatever TTL the settings were given.
C33_ExpiresAfterCached ==
    \A key \in DOMAIN cache :
        fromisoformat(cache[key].expires_at)
            > fromisoformat(cache[key].cached_at)

\* The step in which call p ends its successful HTTP call by storing.
Stores(p) ==
    /\ tasks[p].pc = "http"
    /\ tasks'[p].pc = "done"
    /\ tasks'[p].wrote

\* The step in which call p is answered from the cache.
Hits(p) ==
    /\ tasks[p].pc = "idle"
    /\ tasks'[p].pc = "done"
    /\ tasks'[p].hit

\* C34: the last writer wins.  The step in which a call stores leaves under
\* its key exactly the entry of that call (its value, the expiry and the
\* instant of that store), whatever another call had stored there before, and
\* touches no other key; no other step changes the cache.  A call answered from
\* the cache gets the value of the entry under its key, and that entry is the
\* one the last store of the key wrote: its value is that store's value and its
\* expiry is its own instant plus the TTL.
C34_LastWriterWins ==
    [][/\ \A p \in Procs :
            Stores(p) =>
                /\ tasks'[p].key \in DOMAIN cache'
                /\ cache'[tasks'[p].key]
                       = Entry(tasks'[p].out.value,
                               isoformat(now + cache_ttl_seconds), isoformat(now))
                /\ \A k \in DOMAIN cache' \ {tasks'[p].key} :
                       k \in DOMAIN cache /\ cache'[k] = cache[k]
       /\ (\A p \in Procs : ~Stores(p)) => cache' = cache
       /\ \A p \in Procs :
            Hits(p) =>
                /\ tasks'[p].out = Returned(cache[tasks'[p].key].data)
                /\ cache[tasks'[p].key].data = stored[tasks'[p].key].value
                /\ fromisoformat(cache[tasks'[p].key].expires_at)
                       = fromisoformat(cache[tasks'[p].key].cached_at)
                         + cache_ttl_seconds
      ]_vars

\* Two calls for one key were in flight together: the key was not in the cache
\* when this call began, another call stored under it meanwhile, and this call
\* has now stored over that entry.
C34_Witness ==
    \E p \in Procs :
        /\ tasks[p].pc = "done"
        /\ tasks[p].wrote
        /\ tasks[p].replaced
        /\ tasks[p].lookup = None
        /\ cache[tasks[p].key].data = tasks[p].out.value
        /\ tasks[p].out.value = Payload(None, "v2")

\* C35: _make_request leaves its caller's params dict as it was: once the
\* call has returned or raised, the dict holds exactly the items the caller
\* had put in it.
C35_DescriptorUnchanged ==
    \A p \in Procs :
        (Direct(tasks[p]) /\ tasks[p].pc = "done")
            => tasks[p].req.params = tasks[p].passed

\* C36: a _make_request call that is not answered from the cache reserves
\* exactly one slot of the limiter, in the step that issues its HTTP call and
\* ahead of it, and keeps it whatever its end: success, transport failure,
\* HTTP 429, error envelope or unsupported method (where no HTTP call is
\* issued at all).  No step takes an admission off the limiter's record but
\* flush(), which drops those older than the period.  A publish_media that
\* succeeds has so reserved exactly two slots.
C36_OneSlotPerCall ==
    [][/\ \A p \in Procs :
            /\ Len(tasks'[p].issued) = Len(tasks[p].issued) + 1
                   => /\ tasks'[p].slots = tasks[p].slots + 1
                      /\ task_logs' = Append(flush(task_logs), now)
            /\ tasks'[p].pc \in {"http", "sleep"}
                   => tasks'[p].slots = Len(tasks'[p].issued)
            /\ (Direct(tasks'[p]) /\ tasks'[p].pc = "done")
                   => tasks'[p].slots = IF tasks'[p].hit THEN 0 ELSE 1
            /\ (tasks'[p].op = "publish_media" /\ Succeeded(tasks'[p]))
                   => tasks'[p].slots = 2
       /\ task_logs' \in {task_logs, flush(task_logs),
                          Append(flush(task_logs), now)}
       /\ (\E p \in Procs : tasks[p].pc = "http" /\ tasks'[p].pc = "done")
               => task_logs' = task_logs
      ]_vars

\* A publish_media has succeeded on two slots, while a direct call with an
\* unsupported method has ended on one.
C36_Witness ==
    \E p, q \in Procs :
        /\ tasks[p].op = "publish_media" /\ Succeeded(tasks[p])
        /\ tasks[p].slots = 2
        /\ Len(tasks[p].issued) = 2
        /\ Len(task_logs) = 2
        /\ Direct(tasks[q]) /\ tasks[q].pc = "http" /\ tasks[q].slots = 1

\* C37: a call answered from the cache is addressed to the host of the call
\* that stored the entry: a request to the one host is never given what a
\* request to the other host stored, with the same endpoint and params.
C37_SameHostHit ==
    \A p \in Procs :
        (tasks[p].pc = "done" /\ tasks[p].hit)
            => stored[tasks[p].key].host = Host(tasks[p].req)

\* The entry e has expired.
Expired(e) == fromisoformat(e.expires_at) <= now

\* C38: the cache never evicts.  Every step keeps every key of the cache; an
\* entry that has expired stays as it is in every step but the one in which a
\* successful GET for its key stores over it; and a call answered from the
\* cache is never answered with an expired entry.
C38_NoEviction ==
    [][/\ DOMAIN cache \subseteq DOMAIN cache'
       /\ \A k \in DOMAIN cache :
            (Expired(cache[k]) /\ cache'[k] # cache[k])
                => \E p \in Procs :
                       /\ Stores(p)
                       /\ tasks'[p].key = k
                       /\ Upper(tasks'[p].req.method) = "GET"
                       /\ Succeeded(tasks'[p])
       /\ \A p \in Procs : Hits(p) => ~Expired(cache[tasks'[p].key])
      ]_vars

\* A call found the entry under its key expired, went to the network and has
\* stored over it; until then the expired entry had stayed in the cache.
C38_Witness ==
    \E p \in Procs :
        /\ tasks[p].pc = "done"
        /\ tasks[p].wrote
        /\ tasks[p].lookup # None
        /\ fromisoformat(Get(tasks[p].lookup).entry.expires_at)
               <= Get(tasks[p].lookup).at
        /\ ~Expired(cache[tasks[p].key])

====
